---- MODULE Spec2Model ----
(***************************************************************************)
(* Type promotion in jax/_src/dtypes.py: the promotion lattice, its        *)
(* upper-bound sets, the least-upper-bound solver, canonicalization and    *)
(* result_type with weak-type propagation.                                 *)
(*                                                                         *)
(* A dtype is modelled by its name ("int32"); the three weak lattice nodes *)
(* are the Python scalar types, modelled by "int", "float", "complex".     *)
(* No concrete dtype shares a name with a weak node, so that the identity  *)
(* tests of the source (`a is t`) are name tests here.                     *)
(***************************************************************************)
EXTENDS Naturals, Sequences, FiniteSets

VARIABLES
  enable_x64,             \* config.enable_x64.value
  numpy_dtype_promotion,  \* config.numpy_dtype_promotion.value
  default_dtype_bits,     \* config.default_dtype_bits.value, read once at import
  pc,                     \* "idle": no call in progress; "done": a call has returned or raised
  call,                   \* the call made: its operation and arguments
  result,                 \* its outcome: a value or the exception raised
  calls,                  \* the number of calls made so far
  canonicalize_cache,     \* the functools.cache of _canonicalize_dtype: its entries
  lub_cache,              \* the functools.lru_cache of _least_upper_bound: its entries
  popped_upper_bounds,    \* what has been removed from the sets of the module-level dict
                          \*   _lattice_upper_bounds since import: (policy, node, member)
  build_lattice,          \* _make_lattice_upper_bounds while it runs: its local `lattice`,
  build_todo,             \*   the nodes `for n in lattice` has yet to finish, the current one first,
  upper_bounds,           \*   and its local `upper_bounds`
  threads                 \* the calls in progress in concurrent threads: position, call and outcome

\* The locals of _make_lattice_upper_bounds.
builder == <<build_lattice, build_todo, upper_bounds>>

vars == <<enable_x64, numpy_dtype_promotion, default_dtype_bits, pc, call, result, calls, canonicalize_cache, lub_cache, popped_upper_bounds, builder, threads>>

\* Largest number of operands result_type is called with: under Spec, where
\* it is one call among the others, and under SpecOperands, where it is the
\* only call.
MaxArgs == 2
MaxOperands == 3
\* The most nodes in one direct call of _least_upper_bound.
MaxNodes == 3
\* The number of calls a process makes: under Spec, SpecOperands and SpecLub,
\* which draw the call from every operand, and under SpecCache, which
\* repeats canonicalize_dtype over CachedDtypes.
MaxCalls == 1
MaxCachedCalls == 3
\* The number of nodes of the successor tables, other than the two of the
\* source, that upper-bound sets are constructed for under SpecBuild.
MaxTableNodes == 3
\* The threads that call the cached functions concurrently under
\* SpecThreads, and the number of calls they make between them.
MaxThreads == 2
MaxThreadCalls == 3

Range(s) == {s[i] : i \in DOMAIN s}

\* Some sequence that lists the members of S once each.
RECURSIVE SeqOfSet(_)
SeqOfSet(S) ==
  IF S = {} THEN <<>>
  ELSE LET x == CHOOSE y \in S : TRUE IN <<x>> \o SeqOfSet(S \ {x})

(***************************************************************************)
(* The type registry.                                                      *)
(***************************************************************************)
_float8_dtypes ==
  <<"float8_e4m3b11fnuz", "float8_e4m3fn", "float8_e4m3fnuz", "float8_e5m2",
    "float8_e5m2fnuz">>

_custom_float_dtypes == _float8_dtypes \o <<"bfloat16">>

_int4_dtypes == <<"int4", "uint4">>

_weak_types == <<"int", "float", "complex">>

_bool_types == <<"bool">>

_int_types ==
  <<"uint4", "uint8", "uint16", "uint32", "uint64",
    "int4", "int8", "int16", "int32", "int64">>

_float_types == _custom_float_dtypes \o <<"float16", "float32", "float64">>

_complex_types == <<"complex64", "complex128">>

_jax_types == _bool_types \o _int_types \o _float_types \o _complex_types

\* float0 is a member of _jax_dtype_set but of no lattice.
_jax_dtype_set == {"float0"} \cup Range(_jax_types)

\* Extended dtypes (PRNG key dtypes): instances of ExtendedDType supplied by
\* the array runtime.
ExtendedDTypes == {"key<fry>", "key<rbg>"}

\* Python scalar types with a default dtype.
python_scalar_dtypes ==
  [t \in {"bool", "int", "float", "complex"} |->
     CASE t = "bool" -> "bool"
       [] t = "int" -> "int64"
       [] t = "float" -> "float64"
       [] t = "complex" -> "complex128"]

\* Mutation: uint64 has no 32-bit counterpart.
_dtype_to_32bit_dtype_SignedOnly ==
  [d \in {"int64", "float64", "complex128"} |->
     CASE d = "int64" -> "int32" [] d = "float64" -> "float32" [] d = "complex128" -> "complex64"]

_dtype_to_32bit_dtype ==
  [d \in {"int64", "uint64", "float64", "complex128"} |->
     CASE d = "int64" -> "int32"
       [] d = "uint64" -> "uint32"
       [] d = "float64" -> "float32"
       [] d = "complex128" -> "complex64"]

_dtype_to_inexact ==
  [d \in {"bool", "uint8", "int8", "uint16", "int16", "uint32", "int32", "uint64", "int64"} |->
     IF d \in {"uint64", "int64"} THEN "float64" ELSE "float32"]

\* Mutation: the test of config.default_dtype_bits is inverted.
_default_types_Inverted(bits) ==
  [k \in {"b", "i", "u", "f", "c"} |->
     CASE k = "b" -> "bool"
       [] k = "i" -> IF bits # "32" THEN "int32" ELSE "int64"
       [] k = "u" -> IF bits # "32" THEN "uint32" ELSE "uint64"
       [] k = "f" -> IF bits # "32" THEN "float32" ELSE "float64"
       [] k = "c" -> IF bits # "32" THEN "complex64" ELSE "complex128"]

\* The default types, fixed at import from config.default_dtype_bits.
_default_types(bits) ==
  [k \in {"b", "i", "u", "f", "c"} |->
     CASE k = "b" -> "bool"
       [] k = "i" -> IF bits = "32" THEN "int32" ELSE "int64"
       [] k = "u" -> IF bits = "32" THEN "uint32" ELSE "uint64"
       [] k = "f" -> IF bits = "32" THEN "float32" ELSE "float64"
       [] k = "c" -> IF bits = "32" THEN "complex64" ELSE "complex128"]

(***************************************************************************)
(* Outcomes of a call: a value, or the exception raised.                   *)
(***************************************************************************)
Ok(d, w) == [kind |-> "ok", dtype |-> d, weak |-> w, truth |-> FALSE, msg |-> ""]
OkBool(b) == [kind |-> "ok", dtype |-> "", weak |-> FALSE, truth |-> b, msg |-> ""]
Raise(e, m) == [kind |-> e, dtype |-> "", weak |-> FALSE, truth |-> FALSE, msg |-> m]
NoResult == [kind |-> "none", dtype |-> "", weak |-> FALSE, truth |-> FALSE, msg |-> ""]

(***************************************************************************)
(* The promotion lattice: each node's list of immediate successors.        *)
(***************************************************************************)
StandardLatticeBase ==
  LET f1_types == _float8_dtypes
  IN  [n \in Range(_jax_types) \cup Range(_weak_types) |->
         CASE n = "bool" -> <<"int">>
           [] n = "uint8" -> <<"int16", "uint16">>
           [] n = "uint16" -> <<"int32", "uint32">>
           [] n = "uint32" -> <<"int64", "uint64">>
           [] n = "uint64" -> <<"float">>
           [] n = "int" -> <<"uint8", "int8">>
           [] n = "int8" -> <<"int16">>
           [] n = "int16" -> <<"int32">>
           [] n = "int32" -> <<"int64">>
           [] n = "int64" -> <<"float">>
           [] n = "float" -> f1_types \o <<"bfloat16", "float16", "complex">>
           [] n = "bfloat16" -> <<"float32">>
           [] n = "float16" -> <<"float32">>
           [] n = "float32" -> <<"float64", "complex64">>
           [] n = "float64" -> <<"complex128">>
           [] n = "complex" -> <<"complex64">>
           [] n = "complex64" -> <<"complex128">>
           [] OTHER -> <<>>]

\* Mutation: the 4-bit integers are chained into the integer ladder.
StandardLattice_Int4Chained ==
  [StandardLatticeBase EXCEPT !["int"] = @ \o <<"int4", "uint4">>,
                              !["int4"] = <<"int8">>,
                              !["uint4"] = <<"uint8">>]

\* Mutation: uint8 is followed by uint16 only.
StandardLattice_Uint8Unsigned ==
  [StandardLatticeBase EXCEPT !["int"] = @ \o <<"int4", "uint4">>,
                              !["uint8"] = <<"uint16">>]

\* Mutation: uint64 has no successor.
StandardLattice_Uint64Top ==
  [StandardLatticeBase EXCEPT !["int"] = @ \o <<"int4", "uint4">>,
                              !["uint64"] = <<>>]

StandardLattice ==
  [StandardLatticeBase EXCEPT !["int"] = @ \o <<"int4", "uint4">>]

\* Mutation: int32 is followed by int64 under the strict policy too.
StrictLattice_Chained ==
  [n \in Range(_jax_types) \cup Range(_weak_types) |->
     CASE n = "int" -> <<"float">> \o _int_types
       [] n = "float" -> <<"complex">> \o _float_types
       [] n = "complex" -> _complex_types
       [] n = "int32" -> <<"int64">>
       [] OTHER -> <<>>]

\* Mutation: the weak int has no edge to the weak float.
StrictLattice_IntOnly ==
  [n \in Range(_jax_types) \cup Range(_weak_types) |->
     CASE n = "int" -> _int_types
       [] n = "float" -> <<"complex">> \o _float_types
       [] n = "complex" -> _complex_types
       [] OTHER -> <<>>]

StrictLattice ==
  [n \in Range(_jax_types) \cup Range(_weak_types) |->
     CASE n = "int" -> <<"float">> \o _int_types
       [] n = "float" -> <<"complex">> \o _float_types
       [] n = "complex" -> _complex_types
       [] OTHER -> <<>>]

_type_promotion_lattice(jax_numpy_dtype_promotion) ==
  IF jax_numpy_dtype_promotion = "standard" THEN StandardLattice ELSE StrictLattice

(***************************************************************************)
(* Upper-bound sets: for each node the fixpoint of "add the successors of  *)
(* every member", or "cycle" when the node reaches itself.                 *)
(***************************************************************************)
RECURSIVE UpperBoundsOf(_, _, _)
UpperBoundsOf(lattice, n, ub) ==
  LET new_upper_bounds == UNION {Range(lattice[b]) : b \in ub}
  IN  IF n \in new_upper_bounds THEN {"cycle"}
      ELSE IF new_upper_bounds \subseteq ub THEN ub
      ELSE UpperBoundsOf(lattice, n, ub \cup new_upper_bounds)

\* Mutation: every node starts with no upper bound.
InitialUpperBounds_Empty(lattice) == [node \in DOMAIN lattice |-> {}]

\* upper_bounds = {node: {node} for node in lattice}
InitialUpperBounds(lattice) == [node \in DOMAIN lattice |-> {node}]

\* Mutation: only the successors of n itself are collected.
NewUpperBounds_Direct(lattice, ub, n) == Range(lattice[n])

\* new_upper_bounds = set().union(*(lattice[b] for b in upper_bounds[n]))
NewUpperBounds(lattice, ub, n) == UNION {Range(lattice[b]) : b \in ub[n]}

_make_lattice_upper_bounds(jax_numpy_dtype_promotion) ==
  LET lattice == _type_promotion_lattice(jax_numpy_dtype_promotion)
  IN  [node \in DOMAIN lattice |-> UpperBoundsOf(lattice, node, {node})]

_lattice_upper_bounds ==
  [p \in {"standard", "strict"} |-> _make_lattice_upper_bounds(p)]

(***************************************************************************)
(* The least upper bound of a tuple of nodes.  `promotion` is the value of *)
(* config.numpy_dtype_promotion read for the diagnostic.                   *)
(***************************************************************************)
RECURSIVE Intersection(_)
Intersection(S) ==
  IF Cardinality(S) = 1 THEN CHOOSE s \in S : TRUE
  ELSE LET s == CHOOSE t \in S : TRUE IN s \cap Intersection(S \ {s})

\* Mutation: only the first node's upper bounds are taken.
CommonUpperBounds_First(UB, nodes) == UB[nodes[1]]

\* Mutation: only the first two nodes' upper bounds are intersected.
CommonUpperBounds_Pair(UB, nodes) ==
  Intersection({UB[nodes[i]] : i \in {j \in DOMAIN nodes : j <= 2}})

CommonUpperBounds(UB, nodes) == Intersection({UB[n] : n \in Range(nodes)})

\* Mutation: only the shortcut is taken.
LubCandidates_ShortcutOnly(UB, nodes) == CommonUpperBounds(UB, nodes) \cap Range(nodes)

\* Mutation: every common upper bound is a candidate.
LubCandidates_AllCommon(UB, nodes) ==
  IF CommonUpperBounds(UB, nodes) \cap Range(nodes) # {}
  THEN CommonUpperBounds(UB, nodes) \cap Range(nodes)
  ELSE CommonUpperBounds(UB, nodes)

LubCandidates(UB, nodes) ==
  LET N == Range(nodes)
      CUB == CommonUpperBounds(UB, nodes)
  IN  IF CUB \cap N # {} THEN CUB \cap N
      ELSE {c \in CUB : CUB \subseteq UB[c]}

\* The outcome for a candidate set LUB of the node set N.
LubOutcome(promotion, N, LUB) ==
  IF Cardinality(LUB) = 1 THEN Ok(CHOOSE c \in LUB : TRUE, FALSE)
  ELSE IF Cardinality(LUB) = 0
  THEN IF promotion = "strict"
       THEN Raise("TypePromotionError", "strict")
       ELSE IF \E n \in N : n \in Range(_float8_dtypes)
       THEN Raise("TypePromotionError", "float8")
       ELSE IF \E n \in N : n \in Range(_int4_dtypes)
       THEN Raise("TypePromotionError", "int4")
       ELSE Raise("TypePromotionError", "generic")
  ELSE Raise("TypePromotionError", "internal")

\* Mutation: nodes outside the lattice are skipped.
_least_upper_bound_SkipUnknown(promotion, jax_numpy_dtype_promotion, nodes) ==
  IF \A n \in Range(nodes) : n \notin DOMAIN _lattice_upper_bounds[jax_numpy_dtype_promotion]
  THEN Raise("TypeError", "intersection needs an argument")
  ELSE LubOutcome(promotion,
         Range(nodes) \cap DOMAIN _lattice_upper_bounds[jax_numpy_dtype_promotion],
         LubCandidates(_lattice_upper_bounds[jax_numpy_dtype_promotion],
           SelectSeq(nodes, LAMBDA n : n \in DOMAIN _lattice_upper_bounds[jax_numpy_dtype_promotion])))

_least_upper_bound(promotion, jax_numpy_dtype_promotion, nodes) ==
  IF \E n \in Range(nodes) : n \notin DOMAIN _lattice_upper_bounds[jax_numpy_dtype_promotion]
  THEN Raise("ValueError", "not a valid dtype")
  ELSE IF Len(nodes) = 0
  THEN Raise("TypeError", "intersection needs an argument")
  ELSE LubOutcome(promotion, Range(nodes),
                  LubCandidates(_lattice_upper_bounds[jax_numpy_dtype_promotion], nodes))

(***************************************************************************)
(* np.dtype(x) for a dtype or a Python scalar type.                        *)
(***************************************************************************)
NpDtype(x) == IF x \in DOMAIN python_scalar_dtypes THEN python_scalar_dtypes[x] ELSE x

\* Mutation: the promoted dtype is narrowed to its 32-bit counterpart.
PromotedDtype_Narrowing(lub) ==
  IF lub.kind # "ok" THEN lub
  ELSE IF NpDtype(lub.dtype) \in DOMAIN _dtype_to_32bit_dtype
  THEN Ok(_dtype_to_32bit_dtype[NpDtype(lub.dtype)], FALSE)
  ELSE Ok(NpDtype(lub.dtype), FALSE)

\* np.dtype(...) of the least upper bound, or its exception.
PromotedDtype(lub) ==
  IF lub.kind = "ok" THEN Ok(NpDtype(lub.dtype), FALSE) ELSE lub

\* a if any(a is t for t in _weak_types) else np.dtype(a)
PromotionNode(a) ==
  IF \E i \in DOMAIN _weak_types : a = _weak_types[i] THEN a ELSE NpDtype(a)

promote_types(promotion, a, b) ==
  PromotedDtype(_least_upper_bound(promotion, promotion,
                                   <<PromotionNode(a), PromotionNode(b)>>))

\* _dtype_to_inexact.get(np.dtype(dtype), np.dtype(dtype))
to_inexact_dtype(dtype) ==
  IF NpDtype(dtype) \in DOMAIN _dtype_to_inexact
  THEN Ok(_dtype_to_inexact[NpDtype(dtype)], FALSE)
  ELSE Ok(NpDtype(dtype), FALSE)

(***************************************************************************)
(* issubdtype.  Its arguments are dtype objects, scalar types (the         *)
(* subclasses of np.generic, abstract ones included), Python scalar types  *)
(* and extended dtypes; a scalar type is named as its dtype is.            *)
(***************************************************************************)
DTypeObject(n) == [kind |-> "dtype", name |-> n, type |-> n]
ScalarType(n) == [kind |-> "sctype", name |-> n, type |-> n]
PyType(n) == [kind |-> "pytype", name |-> n, type |-> n]
\* An extended dtype and the scalar type its type property returns, which
\* the array runtime chooses among extended and its subclasses.
ExtendedDTypeObject(n, t) == [kind |-> "extended_dtype", name |-> n, type |-> t]

\* The abstract scalar types of numpy, and extended and prng_key.
AbstractScalarTypes ==
  {"generic", "number", "integer", "signedinteger", "unsignedinteger", "inexact",
   "floating", "complexfloating", "extended", "prng_key"}

\* The base class of a scalar type within np.generic.
ScalarBase(t) ==
  CASE t \in {"int8", "int16", "int32", "int64"} -> "signedinteger"
    [] t \in {"uint8", "uint16", "uint32", "uint64"} -> "unsignedinteger"
    [] t \in {"float16", "float32", "float64"} -> "floating"
    [] t \in {"complex64", "complex128"} -> "complexfloating"
    [] t \in {"signedinteger", "unsignedinteger"} -> "integer"
    [] t \in {"floating", "complexfloating"} -> "inexact"
    [] t \in {"integer", "inexact"} -> "number"
    [] t = "prng_key" -> "extended"
    [] OTHER -> "generic"

RECURSIVE Superclasses(_)
Superclasses(t) ==
  IF t = "generic" THEN {t} ELSE {t} \cup Superclasses(ScalarBase(t))

\* Mutation: a class is not counted as its own subclass.
issubclass_Proper(a, b) == b \in Superclasses(a) \ {a}

\* issubclass(a, b) for scalar types a and b.
issubclass(a, b) == b \in Superclasses(a)

\* _issubclass(a, b) for a scalar type b: False when a is not a class, and
\* a Python scalar type is a subclass of no scalar type.
_issubclass(a, b) == a.kind = "sctype" /\ issubclass(a.name, b)

\* x if _issubclass(x, np.generic) else np.dtype(x).type
SctypeOf(x) ==
  IF _issubclass(x, "generic") THEN x.name
  ELSE IF x.kind = "pytype" THEN python_scalar_dtypes[x.name]
  ELSE x.name

_custom_float_scalar_types == _custom_float_dtypes

\* Mutation: only bfloat16 is a custom float.
ScalarSupertypes_Bfloat16Only(a_sctype) ==
  IF a_sctype = "bfloat16"
  THEN {a_sctype, "floating", "inexact", "number", "generic"}
  ELSE IF a_sctype = "int4"
  THEN {a_sctype, "signedinteger", "integer", "number", "generic"}
  ELSE IF a_sctype = "uint4"
  THEN {a_sctype, "unsignedinteger", "integer", "number", "generic"}
  ELSE Superclasses(a_sctype)

\* The scalar types b_sctype for which issubdtype is True, once both
\* arguments are scalar types.
ScalarSupertypes(a_sctype) ==
  IF a_sctype \in Range(_custom_float_scalar_types)
  THEN {a_sctype, "floating", "inexact", "number", "generic"}
  ELSE IF a_sctype = "int4"
  THEN {a_sctype, "signedinteger", "integer", "number", "generic"}
  ELSE IF a_sctype = "uint4"
  THEN {a_sctype, "unsignedinteger", "integer", "number", "generic"}
  ELSE Superclasses(a_sctype)

\* Mutation: every extended dtype equals every other.
ExtendedDTypeEq_Any(a, b) == a.kind = "extended_dtype"

\* isinstance(a, ExtendedDType) and a == b
ExtendedDTypeEq(a, b) == a.kind = "extended_dtype" /\ a = b

issubdtype(a, b) ==
  IF _issubclass(b, "extended")
  THEN IF a.kind = "extended_dtype"
       THEN OkBool(issubclass(a.type, b.name))
       ELSE IF _issubclass(a, "generic") THEN OkBool(_issubclass(a, b.name))
       ELSE OkBool(issubclass(SctypeOf(a), b.name))
  ELSE IF b.kind = "extended_dtype" THEN OkBool(ExtendedDTypeEq(a, b))
  ELSE OkBool(SctypeOf(b) \in
                ScalarSupertypes(IF a.kind = "extended_dtype" THEN a.type ELSE SctypeOf(a)))

(***************************************************************************)
(* Canonicalization.                                                       *)
(***************************************************************************)
\* issubdtype(dtype, extended) for a dtype or Python scalar type.
IsExtended(dtype) == dtype \in ExtendedDTypes

\* Mutation: 64-bit dtypes are never narrowed.
_canonicalize_dtype_NoNarrowing(x64_enabled, allow_extended_dtype, dtype) ==
  IF IsExtended(dtype)
  THEN IF ~allow_extended_dtype
       THEN Raise("ValueError", "extended dtype not allowed")
       ELSE Ok(dtype, FALSE)
  ELSE Ok(NpDtype(dtype), FALSE)

_canonicalize_dtype(x64_enabled, allow_extended_dtype, dtype) ==
  IF IsExtended(dtype)
  THEN IF ~allow_extended_dtype
       THEN Raise("ValueError", "extended dtype not allowed")
       ELSE Ok(dtype, FALSE)
  ELSE LET dtype_ == NpDtype(dtype)
       IN  IF x64_enabled THEN Ok(dtype_, FALSE)
           ELSE IF dtype_ \in DOMAIN _dtype_to_32bit_dtype
           THEN Ok(_dtype_to_32bit_dtype[dtype_], FALSE)
           ELSE Ok(dtype_, FALSE)

canonicalize_dtype(x64, dtype, allow_extended_dtype) ==
  _canonicalize_dtype(x64, allow_extended_dtype, dtype)

(***************************************************************************)
(* functools.cache around _canonicalize_dtype.  An entry pairs the         *)
(* arguments of a call with the value it returned.                         *)
(***************************************************************************)
\* Mutation: allow_extended_dtype is left out of the key.
CacheKey_NoAllow(x64_enabled, allow_extended_dtype, dtype) ==
  [x64_enabled |-> x64_enabled, allow_extended_dtype |-> TRUE, dtype |-> dtype]

CacheKey(x64_enabled, allow_extended_dtype, dtype) ==
  [x64_enabled |-> x64_enabled, allow_extended_dtype |-> allow_extended_dtype, dtype |-> dtype]

\* A hit returns the stored value; a miss runs the function.
Cached(cache, key, computed) ==
  IF \E e \in cache : e.key = key
  THEN (CHOOSE e \in cache : e.key = key).value
  ELSE computed

\* A miss stores the value returned; a call that raises stores nothing.
Stored(cache, key, outcome) ==
  IF (\E e \in cache : e.key = key) \/ outcome.kind # "ok" THEN cache
  ELSE cache \cup {[key |-> key, value |-> outcome]}

\* functools.cache sets the entry of the key once the function has returned,
\* whether or not another call has set it in the meantime.
StoredAgain(cache, key, outcome) ==
  IF outcome.kind # "ok" THEN cache
  ELSE {e \in cache : e.key # key} \cup {[key |-> key, value |-> outcome]}

\* The cache after canonicalize_dtype(dtype, allow_extended_dtype).
StoredCanonical(cache, x64, dtype, allow_extended_dtype) ==
  Stored(cache, CacheKey(x64, allow_extended_dtype, dtype),
         _canonicalize_dtype(x64, allow_extended_dtype, dtype))

(***************************************************************************)
(* Operands of result_type and safe_to_cast.                               *)
(*   "dtype":  a dtype object (a strongly typed array carries the same     *)
(*             dtype and weak type);                                       *)
(*   "array":  an array whose aval has weak_type set;                      *)
(*   "pytype": a Python scalar type (a Python scalar value carries the     *)
(*             same dtype and, for int, float and complex, is weak too);   *)
(*   "None".                                                               *)
(***************************************************************************)
DtypeOperand(d) == [kind |-> "dtype", dtype |-> d, weak_type |-> FALSE]
WeakArrayOperand(d) == [kind |-> "array", dtype |-> d, weak_type |-> TRUE]
PyTypeOperand(t) == [kind |-> "pytype", dtype |-> t, weak_type |-> FALSE]
NoneOperand == [kind |-> "None", dtype |-> "", weak_type |-> FALSE]

\* dtype(x, canonicalize=...)
dtype(x64, x, canonicalize) ==
  IF x.kind = "None" THEN Raise("ValueError", "Invalid argument to dtype")
  ELSE LET dt == IF x.kind = "pytype" THEN python_scalar_dtypes[x.dtype] ELSE x.dtype
       IN  IF dt \notin _jax_dtype_set /\ ~IsExtended(dt)
           THEN Raise("TypeError", "not a valid JAX array type")
           ELSE IF canonicalize THEN canonicalize_dtype(x64, dt, TRUE)
           ELSE Ok(dt, FALSE)

is_weakly_typed(x) ==
  IF x.kind = "array" THEN x.weak_type
  ELSE FALSE  \* type(x) is `type` or np.dtype, never a member of _weak_types

_dtype_and_weaktype(x64, value) ==
  LET d == dtype(x64, value, FALSE)
      w == (value.kind = "pytype" /\ \E i \in DOMAIN _weak_types : value.dtype = _weak_types[i])
           \/ is_weakly_typed(value)
  IN  [d EXCEPT !.weak = w]

\* type(dtype.type(0).item()): the Python scalar type of a dtype's values.
PyItemType(d) ==
  IF d \in Range(_int_types) THEN "int"
  ELSE IF d \in Range(_float_types) THEN "float"
  ELSE IF d \in Range(_complex_types) THEN "complex"
  ELSE "bool"

\* Mutation: the weak type is ignored.
_jax_type_IgnoreWeak(d, weak_type) == d

_jax_type(d, weak_type) ==
  IF weak_type
  THEN IF d = "bool" THEN d
       ELSE IF d \in Range(_custom_float_dtypes) THEN "float"
       ELSE PyItemType(d)
  ELSE d

\* return out_dtype, (out_dtype != bool_) and out_weak_type
LatticeResult(out_dtype, out_weak_type) ==
  Ok(out_dtype, (out_dtype # "bool") /\ out_weak_type)

\* The all-weak branch, given the least upper bound of the strong dtypes.
AllWeakResult(lub) ==
  IF lub.kind # "ok" THEN lub ELSE LatticeResult(NpDtype(lub.dtype), TRUE)

\* Mutation: the general branch never reports a weak type.
GeneralResult_NeverWeak(lub) ==
  IF lub.kind # "ok" THEN lub ELSE LatticeResult(NpDtype(lub.dtype), FALSE)

\* The general branch, given the least upper bound of the operands' nodes.
GeneralResult(lub) ==
  IF lub.kind # "ok" THEN lub
  ELSE LatticeResult(NpDtype(lub.dtype),
                     \E i \in DOMAIN _weak_types : lub.dtype = _weak_types[i])

\* Mutation: operands of one dtype are sent through the lattice as well.
LatticeResultOfPairs_NoShortcut(promotion, dtypes, weak_types) ==
  IF Len(dtypes) = 1
  THEN LatticeResult(dtypes[1], weak_types[1])
  ELSE IF (\A i \in DOMAIN weak_types : weak_types[i]) /\ promotion # "strict"
  THEN AllWeakResult(_least_upper_bound(promotion, promotion,
                       [i \in DOMAIN dtypes |-> _jax_type(dtypes[i], FALSE)]))
  ELSE GeneralResult(_least_upper_bound(promotion, promotion,
                       [i \in DOMAIN dtypes |-> _jax_type(dtypes[i], weak_types[i])]))

\* _lattice_result_type once every operand's (dtype, weak_type) is known.
LatticeResultOfPairs(promotion, dtypes, weak_types) ==
  IF Len(dtypes) = 1
  THEN LatticeResult(dtypes[1], weak_types[1])
  ELSE IF Cardinality(Range(dtypes)) = 1 /\ ~(\A i \in DOMAIN weak_types : weak_types[i])
  THEN LatticeResult(dtypes[1], FALSE)
  ELSE IF (\A i \in DOMAIN weak_types : weak_types[i]) /\ promotion # "strict"
  THEN AllWeakResult(_least_upper_bound(promotion, promotion,
                       [i \in DOMAIN dtypes |-> _jax_type(dtypes[i], FALSE)]))
  ELSE GeneralResult(_least_upper_bound(promotion, promotion,
                       [i \in DOMAIN dtypes |-> _jax_type(dtypes[i], weak_types[i])]))

\* The first operand whose dtype cannot be determined raises.
LatticeResultOrRaise(promotion, pairs) ==
  IF \E i \in DOMAIN pairs : pairs[i].kind # "ok"
  THEN pairs[CHOOSE i \in DOMAIN pairs :
               pairs[i].kind # "ok" /\ \A j \in 1..(i - 1) : pairs[j].kind = "ok"]
  ELSE LatticeResultOfPairs(promotion,
                            [i \in DOMAIN pairs |-> pairs[i].dtype],
                            [i \in DOMAIN pairs |-> pairs[i].weak])

_lattice_result_type(x64, promotion, args) ==
  LatticeResultOrRaise(promotion, [i \in DOMAIN args |-> _dtype_and_weaktype(x64, args[i])])

\* dtype.kind.  numpy fixes it for its own dtypes; for the ml_dtypes 4-bit
\* integers it is whatever ml_dtypes registers (`int4_kind`), and the custom
\* floats are never asked (result_type tests for them first).
DtypeKind(d, int4_kind) ==
  IF d = "bool" THEN "b"
  ELSE IF d \in Range(_int4_dtypes) THEN int4_kind[d]
  ELSE IF d \in {"int8", "int16", "int32", "int64"} THEN "i"
  ELSE IF d \in {"uint8", "uint16", "uint32", "uint64"} THEN "u"
  ELSE IF d \in Range(_complex_types) THEN "c"
  ELSE IF d \in Range(_float_types) THEN "f"
  ELSE "V"

Int4Kinds == {[d \in Range(_int4_dtypes) |-> IF d = "int4" THEN "i" ELSE "u"],
              [d \in Range(_int4_dtypes) |-> "V"]}

\* The scalar type float_ that stands for a None operand.
float_(bits) == DtypeOperand(_default_types(bits)["f"])

\* return (dtype, weak_type) if return_weak_type_flag else dtype
ReturnedResult(dt, weak_type, return_weak_type_flag) ==
  IF dt.kind # "ok" THEN dt
  ELSE IF return_weak_type_flag THEN Ok(dt.dtype, weak_type)
  ELSE Ok(dt.dtype, FALSE)

\* canonicalize_dtype(_default_types[key])
DefaultOfKind(x64, bits, key) ==
  IF key \in DOMAIN _default_types(bits)
  THEN canonicalize_dtype(x64, _default_types(bits)[key], FALSE)
  ELSE Raise("KeyError", key)

\* result_type given the (dtype, weak_type) of _lattice_result_type.
CanonicalResult(x64, bits, int4_kind, lrt, return_weak_type_flag) ==
  IF lrt.kind # "ok" THEN lrt
  ELSE IF lrt.weak
  THEN ReturnedResult(
         DefaultOfKind(x64, bits,
                       IF lrt.dtype \in Range(_custom_float_dtypes) THEN "f"
                       ELSE DtypeKind(lrt.dtype, int4_kind)),
         lrt.weak, return_weak_type_flag)
  ELSE ReturnedResult(canonicalize_dtype(x64, lrt.dtype, TRUE), lrt.weak,
                      return_weak_type_flag)

\* Mutation: no operands are resolved like a single None operand.
result_type_EmptyAsNone(x64, promotion, bits, int4_kind, args, return_weak_type_flag) ==
  CanonicalResult(x64, bits, int4_kind,
    _lattice_result_type(x64, promotion,
      IF Len(args) = 0 THEN <<float_(bits)>>
      ELSE [i \in DOMAIN args |->
              IF args[i].kind = "None" THEN float_(bits) ELSE args[i]]),
    return_weak_type_flag)

result_type(x64, promotion, bits, int4_kind, args, return_weak_type_flag) ==
  IF Len(args) = 0
  THEN Raise("ValueError", "at least one array or dtype is required")
  ELSE CanonicalResult(x64, bits, int4_kind,
         _lattice_result_type(x64, promotion,
           [i \in DOMAIN args |->
              IF args[i].kind = "None" THEN float_(bits) ELSE args[i]]),
         return_weak_type_flag)

\* The cache after canonicalize_dtype(_default_types[key]).
DefaultOfKindStores(cache, x64, bits, key) ==
  IF key \in DOMAIN _default_types(bits)
  THEN StoredCanonical(cache, x64, _default_types(bits)[key], FALSE)
  ELSE cache

\* The cache after result_type has canonicalized the lattice result lrt.
CanonicalResultStores(cache, x64, bits, int4_kind, lrt) ==
  IF lrt.kind # "ok" THEN cache
  ELSE IF lrt.weak
  THEN DefaultOfKindStores(cache, x64, bits,
         IF lrt.dtype \in Range(_custom_float_dtypes) THEN "f"
         ELSE DtypeKind(lrt.dtype, int4_kind))
  ELSE StoredCanonical(cache, x64, lrt.dtype, TRUE)

\* The cache after result_type(*args).
ResultTypeStores(cache, x64, promotion, bits, int4_kind, args) ==
  IF Len(args) = 0 THEN cache
  ELSE CanonicalResultStores(cache, x64, bits, int4_kind,
         _lattice_result_type(x64, promotion,
           [i \in DOMAIN args |->
              IF args[i].kind = "None" THEN float_(bits) ELSE args[i]]))

\* Mutation: the promoted dtype is compared with the input dtype.
SafeToCastCompare_Input(rt, input_dtype, output_dtype) ==
  IF rt.kind # "ok" THEN rt ELSE OkBool(rt.dtype = input_dtype.dtype)

\* result_type(input_dtype_or_value, output_dtype) == output_dtype
SafeToCastCompare(rt, input_dtype, output_dtype) ==
  IF rt.kind # "ok" THEN rt ELSE OkBool(rt.dtype = output_dtype.dtype)

\* safe_to_cast once both canonical dtypes are known.
SafeToCastDtypes(x64, promotion, bits, int4_kind, value, input_dtype, output_dtype) ==
  IF input_dtype.kind # "ok" THEN input_dtype
  ELSE IF output_dtype.kind # "ok" THEN output_dtype
  ELSE IF input_dtype.dtype = output_dtype.dtype THEN OkBool(TRUE)
  ELSE SafeToCastCompare(
         result_type(x64, promotion, bits, int4_kind,
                     <<value, DtypeOperand(output_dtype.dtype)>>, FALSE),
         input_dtype, output_dtype)

safe_to_cast(x64, promotion, bits, int4_kind, input_dtype_or_value, output_dtype_or_value) ==
  SafeToCastDtypes(x64, promotion, bits, int4_kind, input_dtype_or_value,
                   dtype(x64, input_dtype_or_value, TRUE),
                   dtype(x64, output_dtype_or_value, TRUE))

\* The cache after dtype(x, canonicalize=True), where dt is dtype(x).
DtypeStores(cache, x64, dt) ==
  IF dt.kind = "ok" THEN StoredCanonical(cache, x64, dt.dtype, TRUE) ELSE cache

\* The cache after safe_to_cast, given both canonical dtypes and the cache
\* after they were determined.
SafeToCastDtypesStores(cache, x64, promotion, bits, int4_kind, value, input_dtype, output_dtype) ==
  IF input_dtype.kind # "ok" \/ output_dtype.kind # "ok" THEN cache
  ELSE IF input_dtype.dtype = output_dtype.dtype THEN cache
  ELSE ResultTypeStores(cache, x64, promotion, bits, int4_kind,
                        <<value, DtypeOperand(output_dtype.dtype)>>)

\* The cache after safe_to_cast: the output is not looked at when the dtype
\* of the input cannot be determined.
SafeToCastStores(cache, x64, promotion, bits, int4_kind, input_dtype_or_value, output_dtype_or_value) ==
  IF dtype(x64, input_dtype_or_value, FALSE).kind # "ok" THEN cache
  ELSE SafeToCastDtypesStores(
         DtypeStores(DtypeStores(cache, x64, dtype(x64, input_dtype_or_value, FALSE)),
                     x64, dtype(x64, output_dtype_or_value, FALSE)),
         x64, promotion, bits, int4_kind, input_dtype_or_value,
         dtype(x64, input_dtype_or_value, TRUE),
         dtype(x64, output_dtype_or_value, TRUE))

(***************************************************************************)
(* The functools.lru_cache of _least_upper_bound.  The key of an entry is  *)
(* the argument tuple (jax_numpy_dtype_promotion, *nodes); a call that     *)
(* raises leaves no entry.  No run of the model makes the 512 calls that   *)
(* would evict an entry.                                                   *)
(***************************************************************************)
\* Mutation: the policy is left out of the key.
LubKey_NoPolicy(jax_numpy_dtype_promotion, nodes) ==
  [jax_numpy_dtype_promotion |-> "standard", nodes |-> nodes]

LubKey(jax_numpy_dtype_promotion, nodes) ==
  [jax_numpy_dtype_promotion |-> jax_numpy_dtype_promotion, nodes |-> nodes]

\* _least_upper_bound(jax_numpy_dtype_promotion, *nodes) through its cache;
\* `promotion` is the flag the body reads for its error message.
LubCached(cache, promotion, jax_numpy_dtype_promotion, nodes) ==
  Cached(cache, LubKey(jax_numpy_dtype_promotion, nodes),
         _least_upper_bound(promotion, jax_numpy_dtype_promotion, nodes))

\* The cache after that call, which returned or raised lub.
LubStored(cache, jax_numpy_dtype_promotion, nodes, lub) ==
  Stored(cache, LubKey(jax_numpy_dtype_promotion, nodes), lub)

\* The tuples a set of nodes can be unpacked into by `*{...}`: Python fixes
\* no order for the members of a set.
UnpackedOrders(S) ==
  {s \in [1..Cardinality(S) -> S] : Range(s) = S}

\* The one it is unpacked into where a single call is made and the order
\* shows in the key of the entry left only.
Unpacked(S) == SeqOfSet(S)

\* Mutation: for a single node the answer is popped from the stored set.
PoppedSet_Stored(nodes) == IF Len(nodes) = 1 THEN nodes[1] ELSE "LUB"

\* The set LUB.pop() takes the answer from: the stored set of a node, or
\* "LUB" for a set the call has built.  CUB is built by set.intersection,
\* also when `bounds` lists one stored set, and LUB by `CUB & N` or by the
\* set comprehension.
PoppedSet(nodes) == "LUB"

\* What has been removed from the stored sets once the body of
\* _least_upper_bound has run and returned or raised lub.
PoppedAfterBody(popped, jax_numpy_dtype_promotion, nodes, lub) ==
  IF lub.kind # "ok" \/ PoppedSet(nodes) = "LUB" THEN popped
  ELSE popped \cup {<<jax_numpy_dtype_promotion, PoppedSet(nodes), lub.dtype>>}

\* The same after the call: a hit does not run the body.
PoppedAfterLub(popped, cache, jax_numpy_dtype_promotion, nodes, lub) ==
  IF \E e \in cache : e.key = LubKey(jax_numpy_dtype_promotion, nodes) THEN popped
  ELSE PoppedAfterBody(popped, jax_numpy_dtype_promotion, nodes, lub)

\* The dict _lattice_upper_bounds as it stands once `popped` is removed.
StoredUpperBounds(popped) ==
  [p \in DOMAIN _lattice_upper_bounds |->
     [n \in DOMAIN _lattice_upper_bounds[p] |->
        {m \in _lattice_upper_bounds[p][n] : <<p, n, m>> \notin popped}]]

\* The set of nodes _lattice_result_type unpacks into its call of
\* _least_upper_bound; empty when it makes no call.
LatticeCallNodes(promotion, dtypes, weak_types) ==
  IF Len(dtypes) = 1 THEN {}
  ELSE IF Cardinality(Range(dtypes)) = 1 /\ ~(\A i \in DOMAIN weak_types : weak_types[i])
  THEN {}
  ELSE IF (\A i \in DOMAIN weak_types : weak_types[i]) /\ promotion # "strict"
  THEN {_jax_type(dtypes[i], FALSE) : i \in DOMAIN dtypes}
  ELSE {_jax_type(dtypes[i], weak_types[i]) : i \in DOMAIN dtypes}

\* No call is made when an operand's dtype cannot be determined.
LatticeCallOfPairs(promotion, pairs) ==
  IF \E i \in DOMAIN pairs : pairs[i].kind # "ok" THEN {}
  ELSE LatticeCallNodes(promotion,
                        [i \in DOMAIN pairs |-> pairs[i].dtype],
                        [i \in DOMAIN pairs |-> pairs[i].weak])

\* The same for result_type(*args).
ResultTypeCallNodes(x64, promotion, bits, args) ==
  IF Len(args) = 0 THEN {}
  ELSE LatticeCallOfPairs(promotion,
         [i \in DOMAIN args |->
            _dtype_and_weaktype(x64, IF args[i].kind = "None" THEN float_(bits) ELSE args[i])])

\* The same for safe_to_cast, given both canonical dtypes.
SafeToCastCallNodes(x64, promotion, bits, value, input_dtype, output_dtype) ==
  IF input_dtype.kind # "ok" \/ output_dtype.kind # "ok" THEN {}
  ELSE IF input_dtype.dtype = output_dtype.dtype THEN {}
  ELSE ResultTypeCallNodes(x64, promotion, bits, <<value, DtypeOperand(output_dtype.dtype)>>)

\* What a call _least_upper_bound(jax_numpy_dtype_promotion, *nodes) that
\* returns or raises lub does to the cache and to the stored sets.
LubCallMade(jax_numpy_dtype_promotion, nodes, lub) ==
  /\ lub_cache' = LubStored(lub_cache, jax_numpy_dtype_promotion, nodes, lub)
  /\ popped_upper_bounds' =
       PoppedAfterLub(popped_upper_bounds, lub_cache, jax_numpy_dtype_promotion, nodes, lub)

\* The same for the call _lattice_result_type makes, if any, with its set
\* of nodes unpacked into `nodes`.
LatticeCallMade(promotion, nodes) ==
  IF nodes = <<>> THEN UNCHANGED <<lub_cache, popped_upper_bounds>>
  ELSE LubCallMade(promotion, nodes, _least_upper_bound(promotion, promotion, nodes))

(***************************************************************************)
(* promote_types and result_type with both caches looked up: every call of *)
(* _least_upper_bound and of _canonicalize_dtype they make returns the     *)
(* stored value when its key has an entry.                                 *)
(***************************************************************************)
promote_types_cached(cache, promotion, a, b) ==
  PromotedDtype(LubCached(cache, promotion, promotion,
                          <<PromotionNode(a), PromotionNode(b)>>))

\* _lattice_result_type once every operand's (dtype, weak_type) is known,
\* with its set of nodes unpacked into `nodes`.
LatticeResultOfPairsCached(cache, promotion, dtypes, weak_types, nodes) ==
  IF LatticeCallNodes(promotion, dtypes, weak_types) = {}
  THEN LatticeResultOfPairs(promotion, dtypes, weak_types)
  ELSE IF (\A i \in DOMAIN weak_types : weak_types[i]) /\ promotion # "strict"
  THEN AllWeakResult(LubCached(cache, promotion, promotion, nodes))
  ELSE GeneralResult(LubCached(cache, promotion, promotion, nodes))

LatticeResultOrRaiseCached(cache, promotion, pairs, nodes) ==
  IF \E i \in DOMAIN pairs : pairs[i].kind # "ok"
  THEN LatticeResultOrRaise(promotion, pairs)
  ELSE LatticeResultOfPairsCached(cache, promotion,
                                  [i \in DOMAIN pairs |-> pairs[i].dtype],
                                  [i \in DOMAIN pairs |-> pairs[i].weak], nodes)

_lattice_result_type_cached(cache, x64, promotion, args, nodes) ==
  LatticeResultOrRaiseCached(cache, promotion,
    [i \in DOMAIN args |-> _dtype_and_weaktype(x64, args[i])], nodes)

canonicalize_dtype_cached(cache, x64, d, allow_extended_dtype) ==
  Cached(cache, CacheKey(x64, allow_extended_dtype, d),
         canonicalize_dtype(x64, d, allow_extended_dtype))

DefaultOfKindCached(cache, x64, bits, key) ==
  IF key \in DOMAIN _default_types(bits)
  THEN canonicalize_dtype_cached(cache, x64, _default_types(bits)[key], FALSE)
  ELSE Raise("KeyError", key)

CanonicalResultCached(cache, x64, bits, int4_kind, lrt, return_weak_type_flag) ==
  IF lrt.kind # "ok" THEN lrt
  ELSE IF lrt.weak
  THEN ReturnedResult(
         DefaultOfKindCached(cache, x64, bits,
                             IF lrt.dtype \in Range(_custom_float_dtypes) THEN "f"
                             ELSE DtypeKind(lrt.dtype, int4_kind)),
         lrt.weak, return_weak_type_flag)
  ELSE ReturnedResult(canonicalize_dtype_cached(cache, x64, lrt.dtype, TRUE), lrt.weak,
                      return_weak_type_flag)

\* The operands _lattice_result_type is given.
LatticeArgs(bits, args) ==
  [i \in DOMAIN args |-> IF args[i].kind = "None" THEN float_(bits) ELSE args[i]]

result_type_cached(canonical, lub, x64, promotion, bits, int4_kind, args, return_weak_type_flag, nodes) ==
  IF Len(args) = 0
  THEN Raise("ValueError", "at least one array or dtype is required")
  ELSE CanonicalResultCached(canonical, x64, bits, int4_kind,
         _lattice_result_type_cached(lub, x64, promotion, LatticeArgs(bits, args), nodes),
         return_weak_type_flag)

\* The cache of _canonicalize_dtype after that call.
ResultTypeCachedStores(canonical, lub, x64, promotion, bits, int4_kind, args, nodes) ==
  IF Len(args) = 0 THEN canonical
  ELSE CanonicalResultStores(canonical, x64, bits, int4_kind,
         _lattice_result_type_cached(lub, x64, promotion, LatticeArgs(bits, args), nodes))

(***************************************************************************)
(* The state machine: a caller makes one call at a time.  A call of        *)
(* canonicalize_dtype goes through the cache; the other calls are given by *)
(* the values _canonicalize_dtype and _least_upper_bound compute, which    *)
(* are the values the caches hold for the same arguments, and by the       *)
(* entries they leave.  The calls of SpecMemo go through both caches.      *)
(***************************************************************************)
Policies == {"standard", "strict"}

\* What promote_types is called with: a dtype or a Python scalar type.
TypeArgs == Range(_jax_types) \cup {"bool", "int", "float", "complex"}

Init ==
  /\ enable_x64 \in BOOLEAN
  /\ numpy_dtype_promotion \in Policies
  /\ default_dtype_bits \in {"32", "64"}
  /\ pc = "idle"
  /\ call = [op |-> "none", args |-> <<>>, flag |-> FALSE]
  /\ result = NoResult
  /\ calls = 0
  /\ canonicalize_cache = {}
  /\ lub_cache = {}
  /\ popped_upper_bounds = {}
  /\ build_lattice = <<>>
  /\ build_todo = <<>>
  /\ upper_bounds = <<>>
  /\ threads = <<>>

\* What result_type and safe_to_cast are called with.
Operands ==
  {DtypeOperand(d) : d \in Range(_jax_types) \cup ExtendedDTypes}
    \cup {WeakArrayOperand(d) : d \in Range(_jax_types)}
    \cup {PyTypeOperand(t) : t \in DOMAIN python_scalar_dtypes}
    \cup {NoneOperand}

RECURSIVE SeqsUpTo(_, _)
SeqsUpTo(S, n) ==
  IF n = 0 THEN {<<>>}
  ELSE LET shorter == SeqsUpTo(S, n - 1)
       IN  shorter \cup {Append(s, x) : s \in {t \in shorter : Len(t) = n - 1}, x \in S}

PromoteTypes ==
  /\ pc = "idle"
  /\ calls < MaxCalls
  /\ \E a \in TypeArgs, b \in TypeArgs :
       /\ call' = [op |-> "promote_types", args |-> <<a, b>>, flag |-> FALSE]
       /\ result' = promote_types(numpy_dtype_promotion, a, b)
       /\ LubCallMade(numpy_dtype_promotion, <<PromotionNode(a), PromotionNode(b)>>,
                      _least_upper_bound(numpy_dtype_promotion, numpy_dtype_promotion,
                                         <<PromotionNode(a), PromotionNode(b)>>))
  /\ pc' = "done"
  /\ calls' = calls + 1
  /\ UNCHANGED <<enable_x64, numpy_dtype_promotion, default_dtype_bits, canonicalize_cache, builder, threads>>

ResultTypeCall(n) ==
  /\ pc = "idle"
  /\ calls < MaxCalls
  /\ \E args \in SeqsUpTo(Operands, n), flag \in BOOLEAN, int4_kind \in Int4Kinds :
       /\ call' = [op |-> "result_type", args |-> args, flag |-> flag]
       /\ result' = result_type(enable_x64, numpy_dtype_promotion, default_dtype_bits,
                                int4_kind, args, flag)
       /\ canonicalize_cache' =
            ResultTypeStores(canonicalize_cache, enable_x64, numpy_dtype_promotion,
                             default_dtype_bits, int4_kind, args)
       /\ LatticeCallMade(numpy_dtype_promotion,
            Unpacked(ResultTypeCallNodes(enable_x64, numpy_dtype_promotion,
                                         default_dtype_bits, args)))
  /\ pc' = "done"
  /\ calls' = calls + 1
  /\ UNCHANGED <<enable_x64, numpy_dtype_promotion, default_dtype_bits, builder, threads>>

ResultType == ResultTypeCall(MaxArgs)

ResultTypeOperands == ResultTypeCall(MaxOperands)

SafeToCast ==
  /\ pc = "idle"
  /\ calls < MaxCalls
  /\ \E a \in Operands, b \in Operands, int4_kind \in Int4Kinds :
       /\ call' = [op |-> "safe_to_cast", args |-> <<a, b>>, flag |-> FALSE]
       /\ result' = safe_to_cast(enable_x64, numpy_dtype_promotion, default_dtype_bits,
                                 int4_kind, a, b)
       /\ canonicalize_cache' =
            SafeToCastStores(canonicalize_cache, enable_x64, numpy_dtype_promotion,
                             default_dtype_bits, int4_kind, a, b)
       /\ LatticeCallMade(numpy_dtype_promotion,
            Unpacked(IF dtype(enable_x64, a, FALSE).kind # "ok" THEN {}
                     ELSE SafeToCastCallNodes(enable_x64, numpy_dtype_promotion,
                                              default_dtype_bits, a,
                                              dtype(enable_x64, a, TRUE),
                                              dtype(enable_x64, b, TRUE))))
  /\ pc' = "done"
  /\ calls' = calls + 1
  /\ UNCHANGED <<enable_x64, numpy_dtype_promotion, default_dtype_bits, builder, threads>>

\* canonicalize_dtype(d, allow_extended_dtype) for a d of D, as one of at
\* most n calls: the cache is looked up, and on a miss _canonicalize_dtype
\* runs and the value it returns is stored.
CanonicalizeDtypeCall(D, n) ==
  /\ pc = "idle"
  /\ calls < n
  /\ \E d \in D, allow_extended_dtype \in BOOLEAN :
       /\ call' = [op |-> "canonicalize_dtype", args |-> <<d>>, flag |-> allow_extended_dtype]
       /\ result' = Cached(canonicalize_cache, CacheKey(enable_x64, allow_extended_dtype, d),
                           canonicalize_dtype(enable_x64, d, allow_extended_dtype))
       /\ canonicalize_cache' = Stored(canonicalize_cache,
                                       CacheKey(enable_x64, allow_extended_dtype, d), result')
  /\ pc' = "done"
  /\ calls' = calls + 1
  /\ UNCHANGED <<enable_x64, numpy_dtype_promotion, default_dtype_bits, lub_cache, popped_upper_bounds, builder, threads>>

CanonicalizeDtype == CanonicalizeDtypeCall(TypeArgs \cup ExtendedDTypes, MaxCalls)

\* The dtypes canonicalize_dtype is called with repeatedly.
CachedDtypes == ExtendedDTypes \cup {"int64"}

CanonicalizeDtypeCached == CanonicalizeDtypeCall(CachedDtypes, MaxCachedCalls)

ToInexactDtype ==
  /\ pc = "idle"
  /\ calls < MaxCalls
  /\ \E d \in TypeArgs :
       /\ call' = [op |-> "to_inexact_dtype", args |-> <<d>>, flag |-> FALSE]
       /\ result' = to_inexact_dtype(d)
  /\ pc' = "done"
  /\ calls' = calls + 1
  /\ UNCHANGED <<enable_x64, numpy_dtype_promotion, default_dtype_bits, canonicalize_cache, lub_cache, popped_upper_bounds, builder, threads>>

\* config.update("jax_enable_x64", ...) between calls.
SetEnableX64 ==
  /\ pc = "idle"
  /\ enable_x64' = ~enable_x64
  /\ UNCHANGED <<numpy_dtype_promotion, default_dtype_bits, pc, call, result, calls, canonicalize_cache, lub_cache, popped_upper_bounds, builder, threads>>

\* config.update("jax_numpy_dtype_promotion", ...) between calls.
SetNumpyDtypePromotion ==
  /\ pc = "idle"
  /\ numpy_dtype_promotion' \in Policies \ {numpy_dtype_promotion}
  /\ UNCHANGED <<enable_x64, default_dtype_bits, pc, call, result, calls, canonicalize_cache, lub_cache, popped_upper_bounds, builder, threads>>

Return ==
  /\ pc = "done"
  /\ pc' = "idle"
  /\ call' = [op |-> "none", args |-> <<>>, flag |-> FALSE]
  /\ result' = NoResult
  /\ UNCHANGED <<enable_x64, numpy_dtype_promotion, default_dtype_bits, calls, canonicalize_cache, lub_cache, popped_upper_bounds, builder, threads>>

Next ==
  \/ PromoteTypes
  \/ ResultType
  \/ SafeToCast
  \/ CanonicalizeDtype
  \/ ToInexactDtype
  \/ SetEnableX64
  \/ SetNumpyDtypePromotion
  \/ Return

Spec == Init /\ [][Next]_vars

\* result_type alone, with more operands.
NextOperands ==
  \/ ResultTypeOperands
  \/ SetEnableX64
  \/ SetNumpyDtypePromotion
  \/ Return

SpecOperands == Init /\ [][NextOperands]_vars

\* What issubdtype is called with.
SubdtypeArgs ==
  {DTypeObject(n) : n \in Range(_jax_types)}
    \cup {ScalarType(n) : n \in Range(_jax_types) \cup AbstractScalarTypes}
    \cup {PyType(n) : n \in DOMAIN python_scalar_dtypes}
    \cup {ExtendedDTypeObject(n, t) : n \in ExtendedDTypes, t \in {"extended", "prng_key"}}

IsSubdtype ==
  /\ pc = "idle"
  /\ calls < MaxCalls
  /\ \E a \in SubdtypeArgs, b \in SubdtypeArgs :
       /\ call' = [op |-> "issubdtype", args |-> <<a, b>>, flag |-> FALSE]
       /\ result' = issubdtype(a, b)
  /\ pc' = "done"
  /\ calls' = calls + 1
  /\ UNCHANGED <<enable_x64, numpy_dtype_promotion, default_dtype_bits, canonicalize_cache, lub_cache, popped_upper_bounds, builder, threads>>

NextSubdtype ==
  \/ IsSubdtype
  \/ Return

SpecSubdtype == Init /\ [][NextSubdtype]_vars

\* What _least_upper_bound is called with: the nodes of the lattices, and
\* dtypes that are not nodes (extended dtypes, float0).
LubNodes == Range(_jax_types) \cup Range(_weak_types) \cup ExtendedDTypes \cup {"float0"}

\* A direct call _least_upper_bound(config.numpy_dtype_promotion.value, *nodes).
LeastUpperBound ==
  /\ pc = "idle"
  /\ calls < MaxCalls
  /\ \E nodes \in SeqsUpTo(LubNodes, MaxNodes) :
       /\ call' = [op |-> "_least_upper_bound", args |-> nodes, flag |-> FALSE]
       /\ result' = _least_upper_bound(numpy_dtype_promotion, numpy_dtype_promotion, nodes)
       /\ LubCallMade(numpy_dtype_promotion, nodes,
                      _least_upper_bound(numpy_dtype_promotion, numpy_dtype_promotion, nodes))
  /\ pc' = "done"
  /\ calls' = calls + 1
  /\ UNCHANGED <<enable_x64, numpy_dtype_promotion, default_dtype_bits, canonicalize_cache, builder, threads>>

NextLub ==
  \/ LeastUpperBound
  \/ SetNumpyDtypePromotion
  \/ Return

SpecLub == Init /\ [][NextLub]_vars

\* canonicalize_dtype alone, called repeatedly.
NextCache ==
  \/ CanonicalizeDtypeCached
  \/ SetEnableX64
  \/ Return

SpecCache == Init /\ [][NextCache]_vars

(***************************************************************************)
(* A process that makes several calls, each through the caches, while the  *)
(* flags change between calls.                                             *)
(***************************************************************************)
\* What promote_types and _least_upper_bound are called with repeatedly.
CachedTypes == {"int64", "float"}

\* What result_type is called with repeatedly.
CachedOperands == {DtypeOperand("int64"), PyTypeOperand("float")}

PromoteTypesCached ==
  /\ pc = "idle"
  /\ calls < MaxCachedCalls
  /\ \E a \in CachedTypes, b \in CachedTypes :
       /\ call' = [op |-> "promote_types", args |-> <<a, b>>, flag |-> FALSE]
       /\ result' = promote_types_cached(lub_cache, numpy_dtype_promotion, a, b)
       /\ LubCallMade(numpy_dtype_promotion, <<PromotionNode(a), PromotionNode(b)>>,
                      _least_upper_bound(numpy_dtype_promotion, numpy_dtype_promotion,
                                         <<PromotionNode(a), PromotionNode(b)>>))
  /\ pc' = "done"
  /\ calls' = calls + 1
  /\ UNCHANGED <<enable_x64, numpy_dtype_promotion, default_dtype_bits, canonicalize_cache, builder, threads>>

\* result_type(*args): the set of nodes, if one is unpacked, comes in any
\* order.
ResultTypeCached ==
  /\ pc = "idle"
  /\ calls < MaxCachedCalls
  /\ \E args \in SeqsUpTo(CachedOperands, MaxArgs), flag \in BOOLEAN, int4_kind \in Int4Kinds :
       \E nodes \in UnpackedOrders(ResultTypeCallNodes(enable_x64, numpy_dtype_promotion,
                                                       default_dtype_bits, args)) :
         /\ call' = [op |-> "result_type", args |-> args, flag |-> flag]
         /\ result' = result_type_cached(canonicalize_cache, lub_cache, enable_x64,
                                         numpy_dtype_promotion, default_dtype_bits,
                                         int4_kind, args, flag, nodes)
         /\ canonicalize_cache' =
              ResultTypeCachedStores(canonicalize_cache, lub_cache, enable_x64,
                                     numpy_dtype_promotion, default_dtype_bits,
                                     int4_kind, args, nodes)
         /\ LatticeCallMade(numpy_dtype_promotion, nodes)
  /\ pc' = "done"
  /\ calls' = calls + 1
  /\ UNCHANGED <<enable_x64, numpy_dtype_promotion, default_dtype_bits, builder, threads>>

LeastUpperBoundCached ==
  /\ pc = "idle"
  /\ calls < MaxCachedCalls
  /\ \E nodes \in SeqsUpTo(CachedTypes, MaxArgs) :
       /\ call' = [op |-> "_least_upper_bound", args |-> nodes, flag |-> FALSE]
       /\ result' = LubCached(lub_cache, numpy_dtype_promotion, numpy_dtype_promotion, nodes)
       /\ LubCallMade(numpy_dtype_promotion, nodes,
                      _least_upper_bound(numpy_dtype_promotion, numpy_dtype_promotion, nodes))
  /\ pc' = "done"
  /\ calls' = calls + 1
  /\ UNCHANGED <<enable_x64, numpy_dtype_promotion, default_dtype_bits, canonicalize_cache, builder, threads>>

NextMemo ==
  \/ PromoteTypesCached
  \/ ResultTypeCached
  \/ LeastUpperBoundCached
  \/ CanonicalizeDtypeCached
  \/ SetEnableX64
  \/ SetNumpyDtypePromotion
  \/ Return

SpecMemo == Init /\ [][NextMemo]_vars

(***************************************************************************)
(* Threads that call _least_upper_bound and _canonicalize_dtype            *)
(* concurrently.  A call looks its key up; on a miss the function runs     *)
(* while other threads take their steps, and its value is stored when it   *)
(* returns.                                                                *)
(***************************************************************************)
Threads == 1..MaxThreads

IdleThread == [pc |-> "idle", op |-> "none", key |-> <<>>, hit |-> FALSE, result |-> NoResult]

InitThreads ==
  /\ enable_x64 \in BOOLEAN
  /\ numpy_dtype_promotion \in Policies
  /\ default_dtype_bits \in {"32", "64"}
  /\ pc = "idle"
  /\ call = [op |-> "none", args |-> <<>>, flag |-> FALSE]
  /\ result = NoResult
  /\ calls = 0
  /\ canonicalize_cache = {}
  /\ lub_cache = {}
  /\ popped_upper_bounds = {}
  /\ build_lattice = <<>>
  /\ build_todo = <<>>
  /\ upper_bounds = <<>>
  /\ threads = [t \in Threads |-> IdleThread]

\* The thread after the lookup of its key.
LookedUp(cache, op, key) ==
  IF \E e \in cache : e.key = key
  THEN [pc |-> "done", op |-> op, key |-> key, hit |-> TRUE,
        result |-> (CHOOSE e \in cache : e.key = key).value]
  ELSE [pc |-> "running", op |-> op, key |-> key, hit |-> FALSE, result |-> NoResult]

\* Mutation: the function runs on the arguments of whichever thread is
\* running it.
RunningValue_Shared(t) ==
  LET th == threads[CHOOSE u \in Threads : threads[u].pc = "running"]
  IN  IF th.op = "_least_upper_bound"
      THEN _least_upper_bound(numpy_dtype_promotion, th.key.jax_numpy_dtype_promotion,
                              th.key.nodes)
      ELSE _canonicalize_dtype(th.key.x64_enabled, th.key.allow_extended_dtype, th.key.dtype)

\* What the function returns or raises in thread t: it runs on the
\* arguments of the call of t.
RunningValue(t) ==
  IF threads[t].op = "_least_upper_bound"
  THEN _least_upper_bound(numpy_dtype_promotion, threads[t].key.jax_numpy_dtype_promotion,
                          threads[t].key.nodes)
  ELSE _canonicalize_dtype(threads[t].key.x64_enabled, threads[t].key.allow_extended_dtype,
                           threads[t].key.dtype)

CallLeastUpperBound(t) ==
  /\ threads[t].pc = "idle"
  /\ calls < MaxThreadCalls
  /\ \E nodes \in SeqsUpTo(CachedTypes, MaxArgs) :
       threads' = [threads EXCEPT ![t] =
                     LookedUp(lub_cache, "_least_upper_bound",
                              LubKey(numpy_dtype_promotion, nodes))]
  /\ calls' = calls + 1
  /\ UNCHANGED <<enable_x64, numpy_dtype_promotion, default_dtype_bits, pc, call, result, canonicalize_cache, lub_cache, popped_upper_bounds, builder>>

CallCanonicalizeDtype(t) ==
  /\ threads[t].pc = "idle"
  /\ calls < MaxThreadCalls
  /\ \E d \in CachedDtypes, allow_extended_dtype \in BOOLEAN :
       threads' = [threads EXCEPT ![t] =
                     LookedUp(canonicalize_cache, "_canonicalize_dtype",
                              CacheKey(enable_x64, allow_extended_dtype, d))]
  /\ calls' = calls + 1
  /\ UNCHANGED <<enable_x64, numpy_dtype_promotion, default_dtype_bits, pc, call, result, canonicalize_cache, lub_cache, popped_upper_bounds, builder>>

\* The body of _least_upper_bound returns or raises in thread t; lru_cache
\* stores the value unless the key has been given an entry meanwhile.
FinishLeastUpperBound(t) ==
  /\ threads[t].pc = "running"
  /\ threads[t].op = "_least_upper_bound"
  /\ threads' = [threads EXCEPT ![t].pc = "done", ![t].result = RunningValue(t)]
  /\ lub_cache' = Stored(lub_cache, threads[t].key, RunningValue(t))
  /\ popped_upper_bounds' =
       PoppedAfterBody(popped_upper_bounds, threads[t].key.jax_numpy_dtype_promotion,
                       threads[t].key.nodes, RunningValue(t))
  /\ UNCHANGED <<enable_x64, numpy_dtype_promotion, default_dtype_bits, pc, call, result, calls, canonicalize_cache, builder>>

\* _canonicalize_dtype returns or raises in thread t.
FinishCanonicalizeDtype(t) ==
  /\ threads[t].pc = "running"
  /\ threads[t].op = "_canonicalize_dtype"
  /\ threads' = [threads EXCEPT ![t].pc = "done", ![t].result = RunningValue(t)]
  /\ canonicalize_cache' = StoredAgain(canonicalize_cache, threads[t].key, RunningValue(t))
  /\ UNCHANGED <<enable_x64, numpy_dtype_promotion, default_dtype_bits, pc, call, result, calls, lub_cache, popped_upper_bounds, builder>>

ThreadReturn(t) ==
  /\ threads[t].pc = "done"
  /\ threads' = [threads EXCEPT ![t] = IdleThread]
  /\ UNCHANGED <<enable_x64, numpy_dtype_promotion, default_dtype_bits, pc, call, result, calls, canonicalize_cache, lub_cache, popped_upper_bounds, builder>>

NextThreads ==
  \/ \E t \in Threads : CallLeastUpperBound(t)
  \/ \E t \in Threads : CallCanonicalizeDtype(t)
  \/ \E t \in Threads : FinishLeastUpperBound(t)
  \/ \E t \in Threads : FinishCanonicalizeDtype(t)
  \/ \E t \in Threads : ThreadReturn(t)

SpecThreads == InitThreads /\ [][NextThreads]_vars

(***************************************************************************)
(* _make_lattice_upper_bounds step by step, for the two tables of the      *)
(* source and for every table over a few nodes whose successors are nodes  *)
(* of the table.                                                           *)
(***************************************************************************)
NodeNames == <<"n1", "n2", "n3", "n4">>

TableNodes == {NodeNames[i] : i \in 1..MaxTableNodes}

SmallLattices ==
  {[n \in TableNodes |-> SeqOfSet(succ[n])] : succ \in [TableNodes -> SUBSET TableNodes]}

ShippedLattices == {_type_promotion_lattice(p) : p \in Policies}

Reverse(s) == [i \in DOMAIN s |-> s[Len(s) + 1 - i]]

\* The order of the keys of the dict _type_promotion_lattice returns.
LatticeOrder(jax_numpy_dtype_promotion) ==
  IF jax_numpy_dtype_promotion = "standard"
  THEN <<"bool", "uint8", "uint16", "uint32", "uint64",
         "int", "int8", "int16", "int32", "int64", "float">>
         \o _float8_dtypes
         \o <<"bfloat16", "float16", "float32", "float64",
              "complex", "complex64", "complex128", "int4", "uint4">>
  ELSE _weak_types \o _jax_types

\* The orders `for n in lattice` visits the nodes in: the dict order and its
\* reverse for the tables of the source, every order for the others.
BuildOrders(lattice) ==
  IF lattice \in ShippedLattices
  THEN LET order == LatticeOrder(CHOOSE p \in Policies : lattice = _type_promotion_lattice(p))
       IN  {order, Reverse(order)}
  ELSE {s \in SeqsUpTo(DOMAIN lattice, Cardinality(DOMAIN lattice)) : Range(s) = DOMAIN lattice}

\* _make_lattice_upper_bounds has been entered with some table.
InitBuild ==
  /\ enable_x64 = FALSE
  /\ numpy_dtype_promotion = "standard"
  /\ default_dtype_bits = "64"
  /\ pc = "building"
  /\ call = [op |-> "_make_lattice_upper_bounds", args |-> <<>>, flag |-> FALSE]
  /\ result = NoResult
  /\ calls = 0
  /\ canonicalize_cache = {}
  /\ lub_cache = {}
  /\ popped_upper_bounds = {}
  /\ build_lattice \in ShippedLattices \cup SmallLattices
  /\ build_todo \in BuildOrders(build_lattice)
  /\ upper_bounds = InitialUpperBounds(build_lattice)
  /\ threads = <<>>

\* if n in new_upper_bounds: raise ValueError("cycle detected ...")
CycleDetected ==
  /\ pc = "building"
  /\ build_todo # <<>>
  /\ Head(build_todo) \in NewUpperBounds(build_lattice, upper_bounds, Head(build_todo))
  /\ pc' = "raised"
  /\ result' = Raise("ValueError", "cycle detected")
  /\ UNCHANGED <<enable_x64, numpy_dtype_promotion, default_dtype_bits, call, calls, canonicalize_cache, lub_cache, popped_upper_bounds, builder, threads>>

\* if new_upper_bounds.issubset(upper_bounds[n]): break
NextNode ==
  /\ pc = "building"
  /\ build_todo # <<>>
  /\ LET n == Head(build_todo)
         new_upper_bounds == NewUpperBounds(build_lattice, upper_bounds, n)
     IN  /\ n \notin new_upper_bounds
         /\ new_upper_bounds \subseteq upper_bounds[n]
  /\ build_todo' = Tail(build_todo)
  /\ UNCHANGED <<enable_x64, numpy_dtype_promotion, default_dtype_bits, pc, call, result, calls, canonicalize_cache, lub_cache, popped_upper_bounds, build_lattice, upper_bounds, threads>>

\* upper_bounds[n] |= new_upper_bounds
ExtendUpperBounds ==
  /\ pc = "building"
  /\ build_todo # <<>>
  /\ LET n == Head(build_todo)
         new_upper_bounds == NewUpperBounds(build_lattice, upper_bounds, n)
     IN  /\ n \notin new_upper_bounds
         /\ ~(new_upper_bounds \subseteq upper_bounds[n])
         /\ upper_bounds' = [upper_bounds EXCEPT ![n] = @ \cup new_upper_bounds]
  /\ UNCHANGED <<enable_x64, numpy_dtype_promotion, default_dtype_bits, pc, call, result, calls, canonicalize_cache, lub_cache, popped_upper_bounds, build_lattice, build_todo, threads>>

\* return upper_bounds
ReturnUpperBounds ==
  /\ pc = "building"
  /\ build_todo = <<>>
  /\ pc' = "returned"
  /\ UNCHANGED <<enable_x64, numpy_dtype_promotion, default_dtype_bits, call, result, calls, canonicalize_cache, lub_cache, popped_upper_bounds, builder, threads>>

NextBuild ==
  \/ CycleDetected
  \/ NextNode
  \/ ExtendUpperBounds
  \/ ReturnUpperBounds

SpecBuild == InitBuild /\ [][NextBuild]_vars

\* The loop is never suspended for ever: it runs in one thread at import.
SpecBuildFair == SpecBuild /\ WF_vars(NextBuild)

(***************************************************************************)
(* Properties.                                                             *)
(***************************************************************************)
Concrete == Range(_jax_types)
NarrowTags == Range(_float8_dtypes) \cup Range(_int4_dtypes)
BoolOrWideInt ==
  {"bool", "uint8", "uint16", "uint32", "uint64", "int8", "int16", "int32", "int64"}
Is64Bit(d) == d \in {"int64", "uint64", "float64", "complex128"}

Promoted == pc = "done" /\ call.op = "promote_types"
Resolved == pc = "done" /\ call.op = "result_type"
Casted == pc = "done" /\ call.op = "safe_to_cast"

\* The operand that stands for a tag: a Python scalar type for a weak tag,
\* a dtype object for a concrete tag.
TagOperand(t) ==
  IF t \in Range(_weak_types) THEN PyTypeOperand(t) ELSE DtypeOperand(t)

\* The int4_kind choice is irrelevant wherever no 4-bit integer result is weak.
AnyInt4Kind == CHOOSE k \in Int4Kinds : TRUE

PromotedNarrowPair ==
  /\ Promoted
  /\ numpy_dtype_promotion = "standard"
  /\ call.args[1] \in Concrete /\ call.args[2] \in Concrete
  /\ call.args[1] # call.args[2]
  /\ (call.args[1] \in NarrowTags \/ call.args[2] \in NarrowTags)

\* C1 as stated: under the standard policy promote_types of an 8-bit float
\* or 4-bit integer dtype with any different concrete dtype raises
\* TypePromotionError.
C1_AsStated == PromotedNarrowPair => result.kind = "TypePromotionError"

\* What a narrow dtype n gives with a different concrete dtype t.
NarrowJoin(n, t) ==
  IF n \in Range(_float8_dtypes)
  THEN IF t \in BoolOrWideInt THEN n ELSE "error"
  ELSE IF t = "bool" THEN n ELSE "error"

\* C1 amended: under the standard policy an 8-bit float dtype combined with
\* a different float, complex or 4-bit integer dtype raises
\* TypePromotionError, and so does a 4-bit integer dtype combined with any
\* different concrete dtype other than bool; but an 8-bit float combined
\* with bool or an 8-to-64-bit integer returns the 8-bit float, and a 4-bit
\* integer combined with bool returns the 4-bit integer.
C1_NarrowPromotion ==
  PromotedNarrowPair =>
    LET a == call.args[1]
        b == call.args[2]
        e == IF a \in NarrowTags THEN NarrowJoin(a, b) ELSE NarrowJoin(b, a)
    IN  IF e = "error" THEN result.kind = "TypePromotionError"
        ELSE result = Ok(e, FALSE)

C1_Witness ==
  /\ PromotedNarrowPair
  /\ call.args = <<"float8_e4m3fn", "int32">>
  /\ result = Ok("float8_e4m3fn", FALSE)

\* C2 as stated: promote_types(a, a) equals canonicalize_dtype(a) under
\* both values of enable_x64, for every concrete and weak tag a.
C2_AsStated ==
  (Promoted /\ call.args[1] = call.args[2]) =>
    result = canonicalize_dtype(enable_x64, call.args[1], FALSE)

\* C2 amended: promote_types(a, a) is np.dtype(a), never narrowed: it equals
\* canonicalize_dtype(a) computed with x64 enabled, and equals
\* canonicalize_dtype(a) under the current enable_x64 exactly when x64 is
\* enabled or np.dtype(a) is not a 64-bit dtype.
C2_SelfPromotion ==
  (Promoted /\ call.args[1] = call.args[2]) =>
    LET a == call.args[1]
        wide == IF a = "int" THEN "int64"
                ELSE IF a = "float" THEN "float64"
                ELSE IF a = "complex" THEN "complex128"
                ELSE a
    IN  /\ result = Ok(wide, FALSE)
        /\ result = _canonicalize_dtype(TRUE, FALSE, a)
        /\ (result = canonicalize_dtype(enable_x64, a, FALSE)) <=> (enable_x64 \/ ~Is64Bit(wide))

C2_Witness ==
  /\ Promoted
  /\ ~enable_x64
  /\ call.args = <<"int64", "int64">>
  /\ result = Ok("int64", FALSE)
  /\ canonicalize_dtype(enable_x64, "int64", FALSE) = Ok("int32", FALSE)

\* C3: under the standard policy promote_types(a, b) and promote_types(b, a)
\* return the same dtype or raise the same kind of error, and the least
\* upper bound of a tuple of nodes does not depend on the order or the
\* multiplicity of its nodes.
C3_Symmetry ==
  (Promoted /\ numpy_dtype_promotion = "standard") =>
    LET a == call.args[1]
        b == call.args[2]
        p == numpy_dtype_promotion
        swapped == promote_types(p, b, a)
        na == IF a \in Range(_weak_types) THEN a ELSE NpDtype(a)
        nb == IF b \in Range(_weak_types) THEN b ELSE NpDtype(b)
        lub(nodes) == _least_upper_bound(p, p, nodes)
        same(x, y) == x.kind = y.kind /\ x.dtype = y.dtype
    IN  /\ same(result, swapped)
        /\ result.kind \in {"ok", "TypePromotionError"}
        /\ same(lub(<<na, nb>>), lub(<<nb, na>>))
        /\ same(lub(<<na, nb>>), lub(<<na, nb, na>>))
        /\ same(lub(<<na, nb>>), lub(<<nb, nb, na, nb>>))
        /\ \A c \in DOMAIN _lattice_upper_bounds[p] :
             /\ same(lub(<<na, nb, c>>), lub(<<c, na, nb>>))
             /\ same(lub(<<na, nb, c>>), lub(<<nb, c, na>>))
             /\ same(lub(<<na, nb, c>>), lub(<<c, nb, c, na, na>>))

C3_Witness ==
  /\ Promoted
  /\ numpy_dtype_promotion = "standard"
  /\ call.args = <<"uint8", "int8">>
  /\ result = Ok("int16", FALSE)
  /\ promote_types("standard", "int8", "uint8") = Ok("int16", FALSE)

\* C4: under the strict policy promote_types of two distinct concrete
\* dtypes raises TypePromotionError, promote_types of a concrete dtype with
\* itself returns that dtype, and promote_types(int, int64) returns int64.
C4_Strict ==
  (Promoted /\ numpy_dtype_promotion = "strict") =>
    LET a == call.args[1]
        b == call.args[2]
    IN  /\ (a \in Concrete /\ b \in Concrete /\ a # b) => result.kind = "TypePromotionError"
        /\ (a \in Concrete /\ a = b) => result = Ok(a, FALSE)
        /\ (a = "int" /\ b = "int64") => result = Ok("int64", FALSE)
        /\ (a = "int32" /\ b = "int64") => result.kind = "TypePromotionError"

C4_Witness ==
  /\ Promoted
  /\ numpy_dtype_promotion = "strict"
  /\ call.args = <<"int32", "int64">>
  /\ result.kind = "TypePromotionError"

CastedConcrete ==
  /\ Casted
  /\ call.args[1].kind = "dtype" /\ call.args[1].dtype \in Concrete
  /\ call.args[2].kind = "dtype" /\ call.args[2].dtype \in Concrete

\* C5 as stated: whenever promotion is defined, safe_to_cast(source, target)
\* is true iff source == target or result_type(source, target) == target.
C5_AsStated ==
  CastedConcrete =>
    LET s == call.args[1]
        t == call.args[2]
        rt == result_type(enable_x64, numpy_dtype_promotion, default_dtype_bits,
                          AnyInt4Kind, <<s, t>>, FALSE)
    IN  rt.kind = "ok" =>
          result = OkBool(s.dtype = t.dtype \/ rt.dtype = t.dtype)

\* The dtype narrowed as canonicalization narrows it when x64 is disabled.
Narrowed(x64, d) ==
  IF x64 THEN d
  ELSE IF d = "int64" THEN "int32"
  ELSE IF d = "uint64" THEN "uint32"
  ELSE IF d = "float64" THEN "float32"
  ELSE IF d = "complex128" THEN "complex64"
  ELSE d

\* C5 amended: safe_to_cast(source, target) is true iff
\* canonicalize(source) == canonicalize(target) or
\* result_type(source, canonicalize(target)) == canonicalize(target), and it
\* raises when the canonical dtypes differ and that promotion is undefined;
\* with x64 enabled this is the claim as stated, and under the standard
\* policy safe_to_cast(int32, float64) is true and
\* safe_to_cast(float64, int32) is false.
C5_SafeToCast ==
  CastedConcrete =>
    LET s == call.args[1]
        t == call.args[2]
        cs == Narrowed(enable_x64, s.dtype)
        ct == Narrowed(enable_x64, t.dtype)
        rt(x, y) == result_type(enable_x64, numpy_dtype_promotion, default_dtype_bits,
                                AnyInt4Kind, <<x, y>>, FALSE)
    IN  /\ cs = ct => result = OkBool(TRUE)
        /\ (cs # ct /\ rt(s, DtypeOperand(ct)).kind = "ok") =>
             result = OkBool(rt(s, DtypeOperand(ct)).dtype = ct)
        /\ (cs # ct /\ rt(s, DtypeOperand(ct)).kind # "ok") =>
             result.kind = rt(s, DtypeOperand(ct)).kind
        /\ (enable_x64 /\ rt(s, t).kind = "ok") =>
             result = OkBool(s.dtype = t.dtype \/ rt(s, t).dtype = t.dtype)
        /\ (numpy_dtype_promotion = "standard" /\ s.dtype = "int32" /\ t.dtype = "float64") =>
             result = OkBool(TRUE)
        /\ (numpy_dtype_promotion = "standard" /\ s.dtype = "float64" /\ t.dtype = "int32") =>
             result = OkBool(FALSE)

C5_Witness ==
  /\ CastedConcrete
  /\ ~enable_x64
  /\ call.args = <<DtypeOperand("int32"), DtypeOperand("int64")>>
  /\ result = OkBool(TRUE)
  /\ result_type(enable_x64, numpy_dtype_promotion, default_dtype_bits, AnyInt4Kind,
                 call.args, FALSE) = Ok("int32", FALSE)

\* The outcome of result_type on the two tag-only operands of a
\* promote_types call.
ResultTypeOfTags(a, b) ==
  result_type(enable_x64, numpy_dtype_promotion, default_dtype_bits, AnyInt4Kind,
              <<TagOperand(a), TagOperand(b)>>, FALSE)

\* C6 as stated: for both policies and both values of enable_x64,
\* promote_types(a, b) gives the same dtype or the same kind of error as
\* result_type(a, b) without the weak type flag.
C6_AsStated ==
  Promoted =>
    LET rt == ResultTypeOfTags(call.args[1], call.args[2])
    IN  rt.kind = result.kind /\ rt.dtype = result.dtype

\* C6 amended: promote_types(a, b) and result_type(a, b) raise alike (the
\* same kind of error); when they return, result_type returns
\* promote_types(a, b) canonicalized: the same dtype when x64 is enabled
\* (provided the default dtypes are 64 bits wide or the result is not weak,
\* a weak result being the default dtype of its category), and its 32-bit
\* counterpart for a 64-bit dtype when x64 is disabled.
C6_PromoteVsResultType ==
  Promoted =>
    LET a == call.args[1]
        b == call.args[2]
        rt == ResultTypeOfTags(a, b)
        rtw == result_type(enable_x64, numpy_dtype_promotion, default_dtype_bits,
                           AnyInt4Kind, <<TagOperand(a), TagOperand(b)>>, TRUE)
    IN  /\ rt.kind = result.kind
        /\ rt.kind = "ok" =>
             /\ ~enable_x64 => rt.dtype = Narrowed(FALSE, result.dtype)
             /\ (enable_x64 /\ (default_dtype_bits = "64" \/ ~rtw.weak)) =>
                  rt.dtype = result.dtype
             /\ (enable_x64 /\ default_dtype_bits = "32" /\ rtw.weak) =>
                  rt.dtype = Narrowed(FALSE, result.dtype)

C6_Witness ==
  /\ Promoted
  /\ ~enable_x64
  /\ call.args = <<"int32", "int64">>
  /\ result = Ok("int64", FALSE)
  /\ ResultTypeOfTags("int32", "int64") = Ok("int32", FALSE)

BitWidth(d) ==
  CASE d \in {"uint8", "int8"} -> 8
    [] d \in {"uint16", "int16"} -> 16
    [] d \in {"uint32", "int32"} -> 32
    [] d \in {"uint64", "int64"} -> 64

SignedOfWidth(w) ==
  CASE w = 8 -> "int8" [] w = 16 -> "int16" [] w = 32 -> "int32" [] w = 64 -> "int64"

UnsignedTags == {"uint8", "uint16", "uint32", "uint64"}
SignedTags == {"int8", "int16", "int32", "int64"}

Max(x, y) == IF x >= y THEN x ELSE y

\* The least upper bound node of an unsigned and a signed dtype, as claimed.
MixedSignJoin(u, i) ==
  IF BitWidth(u) = 64 THEN "float"
  ELSE SignedOfWidth(Max(2 * BitWidth(u), BitWidth(i)))

\* C9: under the standard policy the least upper bound of an unsigned N-bit
\* and a signed M-bit dtype is the signed dtype of width max(2N, M) when
\* N <= 32 and the weak float node when N = 64 (promote_types then returns
\* float64); result_type(int8, uint8) returns (int16, False) and
\* result_type(int8, int8) returns (int8, False).
C9_MixedSign ==
  /\ (Promoted /\ numpy_dtype_promotion = "standard") =>
       LET a == call.args[1]
           b == call.args[2]
           lub == _least_upper_bound("standard", "standard", <<a, b>>)
       IN  /\ (a \in UnsignedTags /\ b \in SignedTags) =>
                /\ lub = Ok(MixedSignJoin(a, b), FALSE)
                /\ result = Ok(NpDtype(MixedSignJoin(a, b)), FALSE)
           /\ (a \in SignedTags /\ b \in UnsignedTags) =>
                /\ lub = Ok(MixedSignJoin(b, a), FALSE)
                /\ result = Ok(NpDtype(MixedSignJoin(b, a)), FALSE)
  /\ (Resolved /\ numpy_dtype_promotion = "standard" /\ call.flag) =>
       /\ call.args = <<DtypeOperand("int8"), DtypeOperand("uint8")>> =>
            result = Ok("int16", FALSE)
       /\ call.args = <<DtypeOperand("int8"), DtypeOperand("int8")>> =>
            result = Ok("int8", FALSE)

C9_Witness ==
  /\ Resolved
  /\ numpy_dtype_promotion = "standard"
  /\ call.flag
  /\ call.args = <<DtypeOperand("int8"), DtypeOperand("uint8")>>
  /\ result = Ok("int16", FALSE)

\* The (dtype, weak type) pair an operand contributes to result_type.
OperandDtype(x) ==
  IF x.kind = "None" THEN (IF default_dtype_bits = "32" THEN "float32" ELSE "float64")
  ELSE IF x.kind = "pytype"
  THEN CASE x.dtype = "bool" -> "bool"
         [] x.dtype = "int" -> "int64"
         [] x.dtype = "float" -> "float64"
         [] x.dtype = "complex" -> "complex128"
  ELSE x.dtype

OperandWeak(x) ==
  \/ x.kind = "array" /\ x.weak_type
  \/ x.kind = "pytype" /\ x.dtype \in {"int", "float", "complex"}

\* A weak int, float or complex scalar.
WeakScalar(x) ==
  \/ x.kind = "pytype" /\ x.dtype \in {"int", "float", "complex"}
  \/ x.kind = "array" /\ x.weak_type /\ x.dtype \in {"int64", "float64", "complex128"}

Category(d) ==
  IF d = "bool" THEN "b"
  ELSE IF d \in {"int4", "int8", "int16", "int32", "int64"} THEN "i"
  ELSE IF d \in {"uint4", "uint8", "uint16", "uint32", "uint64"} THEN "u"
  ELSE IF d \in {"complex64", "complex128"} THEN "c"
  ELSE "f"

\* The default dtype of a category at the configured width.
DefaultWidth(c) ==
  LET wide == enable_x64 /\ default_dtype_bits = "64"
  IN  CASE c = "i" -> IF wide THEN "int64" ELSE "int32"
        [] c = "u" -> IF wide THEN "uint64" ELSE "uint32"
        [] c = "f" -> IF wide THEN "float64" ELSE "float32"
        [] c = "c" -> IF wide THEN "complex128" ELSE "complex64"
        [] c = "b" -> "bool"

AllWeakScalars ==
  /\ Resolved
  /\ numpy_dtype_promotion = "standard"
  /\ Len(call.args) >= 2
  /\ \A i \in DOMAIN call.args : WeakScalar(call.args[i])

\* C7: under the standard policy result_type of two or more operands that
\* are all weak int, float or complex scalars returns weak type True and
\* the default dtype, at the configured width, of the category of the least
\* upper bound of the operands' dtypes: complex if any operand is complex,
\* else float if any is float, else int.
C7_AllWeak ==
  AllWeakScalars =>
    LET ds == [i \in DOMAIN call.args |-> OperandDtype(call.args[i])]
        lub == _least_upper_bound("standard", "standard", ds)
        c == IF "complex128" \in Range(ds) THEN "c"
             ELSE IF "float64" \in Range(ds) THEN "f" ELSE "i"
    IN  /\ lub.kind = "ok"
        /\ Category(lub.dtype) = c
        /\ result = Ok(DefaultWidth(c), call.flag)

C7_Witness ==
  /\ AllWeakScalars
  /\ call.flag
  /\ call.args = <<PyTypeOperand("int"), PyTypeOperand("int")>>
  /\ result = Ok(DefaultWidth("i"), TRUE)

\* Two or more operands, not all of one dtype and not all weak.
MixedOperands ==
  /\ Resolved
  /\ Len(call.args) >= 2
  /\ \E i, j \in DOMAIN call.args : OperandDtype(call.args[i]) # OperandDtype(call.args[j])
  /\ \E i \in DOMAIN call.args : ~OperandWeak(call.args[i])

\* C8: for two or more operands that are not all of one dtype and not all
\* weak, result_type returns weak type True exactly when the least upper
\* bound of the operands' (dtype, weak type) nodes is one of the three weak
\* nodes, and raises when that bound does not exist; under the standard
\* policy result_type(bool, int) returns (default int, True) and
\* result_type(bool, int, float32) returns (float32, False).
C8_WeakIffWeakNode ==
  /\ (MixedOperands /\ call.flag) =>
       LET nodes == [i \in DOMAIN call.args |->
                       _jax_type(OperandDtype(call.args[i]), OperandWeak(call.args[i]))]
           lub == _least_upper_bound(numpy_dtype_promotion, numpy_dtype_promotion, nodes)
       IN  /\ result.kind = lub.kind
           /\ result.kind = "ok" => (result.weak <=> lub.dtype \in {"int", "float", "complex"})
  /\ (Resolved /\ call.flag /\ numpy_dtype_promotion = "standard") =>
       /\ call.args = <<DtypeOperand("bool"), PyTypeOperand("int")>> =>
            result = Ok(DefaultWidth("i"), TRUE)
       /\ call.args = <<DtypeOperand("bool"), PyTypeOperand("int"), DtypeOperand("float32")>> =>
            result = Ok("float32", FALSE)

C8_Witness ==
  /\ MixedOperands
  /\ call.flag
  /\ numpy_dtype_promotion = "standard"
  /\ call.args = <<DtypeOperand("bool"), PyTypeOperand("int"), DtypeOperand("float32")>>
  /\ result = Ok("float32", FALSE)

\* C10: whenever result_type returns weak type True the dtype is not bool
\* and is the default dtype, at the configured width, of the category of
\* the promoted dtype (never a narrow or other non-default-width dtype);
\* whenever it returns weak type False the dtype is the promoted dtype
\* canonicalized.
C10_WeakIsDefault ==
  (Resolved /\ call.flag /\ result.kind = "ok") =>
    LET promoted == _lattice_result_type(enable_x64, numpy_dtype_promotion,
                      [i \in DOMAIN call.args |->
                         IF call.args[i].kind = "None" THEN float_(default_dtype_bits)
                         ELSE call.args[i]])
    IN  /\ promoted.kind = "ok"
        /\ result.weak = promoted.weak
        /\ result.weak =>
             /\ result.dtype # "bool"
             /\ result.dtype \in {DefaultWidth("i"), DefaultWidth("u"), DefaultWidth("f"),
                                  DefaultWidth("c")}
             /\ result.dtype = DefaultWidth(Category(promoted.dtype))
        /\ ~result.weak => result.dtype = Narrowed(enable_x64, promoted.dtype)

C10_Witness ==
  /\ Resolved
  /\ call.flag
  /\ ~enable_x64
  /\ call.args = <<WeakArrayOperand("int16"), WeakArrayOperand("uint8")>>
  /\ result = Ok("int32", TRUE)

\* Two or more operands that all carry one dtype, at least one not weak.
SameDtypeOperands ==
  /\ Resolved
  /\ Len(call.args) >= 2
  /\ \A i, j \in DOMAIN call.args : OperandDtype(call.args[i]) = OperandDtype(call.args[j])
  /\ \E i \in DOMAIN call.args : ~OperandWeak(call.args[i])

\* C11: result_type of two or more operands that all carry one identical
\* dtype, at least one of them not weak, returns that dtype canonicalized
\* (an extended dtype unchanged) with weak type False under both policies;
\* in particular it succeeds for identical extended dtypes, which are not
\* nodes of either lattice.
C11_SameDtype ==
  SameDtypeOperands =>
    LET d == OperandDtype(call.args[1])
    IN  /\ result = Ok(Narrowed(enable_x64, d), FALSE)
        /\ d \in ExtendedDTypes =>
              /\ d \notin DOMAIN _lattice_upper_bounds[numpy_dtype_promotion]
              /\ result = Ok(d, FALSE)

C11_Witness ==
  /\ SameDtypeOperands
  /\ numpy_dtype_promotion = "strict"
  /\ call.flag
  /\ call.args = <<DtypeOperand("key<fry>"), DtypeOperand("key<fry>"), DtypeOperand("key<fry>")>>
  /\ result = Ok("key<fry>", FALSE)

Canonicalized == pc = "done" /\ call.op = "canonicalize_dtype"

\* C12 as stated: canonicalize_dtype of any non-extended dtype or scalar type
\* returns it unchanged with x64 enabled, and with x64 disabled returns
\* the 32-bit counterpart of int64, uint64, float64 and complex128 and
\* everything else unchanged.
C12_AsStated ==
  (Canonicalized /\ call.args[1] \notin ExtendedDTypes) =>
    result = Ok(Narrowed(enable_x64, call.args[1]), FALSE)

\* C12 amended: canonicalize_dtype of a non-extended dtype returns it
\* unchanged with x64 enabled, and with x64 disabled returns int32 for int64,
\* uint32 for uint64, float32 for float64, complex64 for complex128 and
\* every other dtype unchanged; a Python scalar type is first replaced by
\* its dtype (bool, int64, float64, complex128) and is never returned
\* itself.
C12_Canonicalize ==
  (Canonicalized /\ call.args[1] \notin ExtendedDTypes) =>
    LET d == call.args[1]
        dt == CASE d = "int" -> "int64"
                [] d = "float" -> "float64"
                [] d = "complex" -> "complex128"
                [] OTHER -> d
    IN  /\ result = Ok(Narrowed(enable_x64, dt), FALSE)
        /\ result.dtype \in Concrete
        /\ (d \in Concrete /\ (enable_x64 \/ ~Is64Bit(d))) => result.dtype = d

C12_Witness ==
  /\ Canonicalized
  /\ ~enable_x64
  /\ ~call.flag
  /\ call.args = <<"uint64">>
  /\ result = Ok("uint32", FALSE)

\* C20: result_type called with no operands raises ValueError ("at least
\* one array or dtype is required") whatever the return flag, the policy and
\* the x64 setting, and no call with an operand raises that error.
C20_NoOperands ==
  Resolved =>
    (Len(call.args) = 0
       <=> result = Raise("ValueError", "at least one array or dtype is required"))

C20_Witness ==
  /\ Resolved
  /\ call.args = <<>>
  /\ call.flag
  /\ result.kind = "ValueError"

WeakTags == Range(_weak_types)

\* The concrete dtypes a weak type adapts to under the strict policy.
StrictTargets(w) ==
  CASE w = "int" -> Range(_int_types) \cup Range(_float_types) \cup Range(_complex_types)
    [] w = "float" -> Range(_float_types) \cup Range(_complex_types)
    [] w = "complex" -> Range(_complex_types)

\* promote_types of a weak type and a concrete dtype, in either order.
PromotedWeakConcrete(w, t) ==
  /\ Promoted
  /\ numpy_dtype_promotion = "strict"
  /\ w \in WeakTags
  /\ t \in Concrete
  /\ call.args \in {<<w, t>>, <<t, w>>}

\* A weak operand of integer dtype.
WeakIntOperand(x) == OperandWeak(x) /\ Category(OperandDtype(x)) \in {"i", "u"}

\* C18: under the strict policy the least upper bound of a weak type w and
\* a concrete dtype t is t itself when t is an integer, float or complex
\* dtype for the weak int, a float or complex dtype for the weak float, a
\* complex dtype for the weak complex, and a TypePromotionError otherwise;
\* result_type of a weak int operand and float32 is (float32, False).
C18_StrictWeak ==
  /\ \A w \in WeakTags, t \in Concrete :
       PromotedWeakConcrete(w, t) =>
         IF t \in StrictTargets(w) THEN result = Ok(t, FALSE)
         ELSE result = Raise("TypePromotionError", "strict")
  /\ (Resolved /\ numpy_dtype_promotion = "strict" /\ Len(call.args) = 2) =>
       \A i, j \in DOMAIN call.args :
         (WeakIntOperand(call.args[i]) /\ call.args[j] = DtypeOperand("float32"))
            => result = Ok("float32", FALSE)

C18_Witness ==
  /\ PromotedWeakConcrete("int", "float32")
  /\ call.args = <<"int", "float32">>
  /\ result = Ok("float32", FALSE)

LubCalled == pc = "done" /\ call.op = "_least_upper_bound"

LatticeNodes == Range(_jax_types) \cup Range(_weak_types)

\* C14: _least_upper_bound of one or more nodes raises a ValueError that is
\* not a TypePromotionError exactly when some node is not a node of the
\* lattice, whatever the other nodes are, including when the nodes that are
\* in the lattice have no upper bound among themselves.
C14_UnknownNode ==
  (LubCalled /\ Len(call.args) > 0) =>
    /\ (\E n \in Range(call.args) : n \notin LatticeNodes)
          <=> result = Raise("ValueError", "not a valid dtype")
    /\ (\A n \in Range(call.args) : n \in LatticeNodes)
          => result.kind \in {"ok", "TypePromotionError"}

C14_Witness ==
  /\ LubCalled
  /\ call.args = <<"float8_e4m3fn", "float8_e5m2", "key<fry>">>
  /\ result = Raise("ValueError", "not a valid dtype")
  /\ _least_upper_bound(numpy_dtype_promotion, numpy_dtype_promotion,
                        <<"float8_e4m3fn", "float8_e5m2">>).kind = "TypePromotionError"

MadeInexact == pc = "done" /\ call.op = "to_inexact_dtype"

InexactTags == Range(_float_types) \cup Range(_complex_types)

\* C19: to_inexact_dtype of a concrete dtype is a float or complex dtype:
\* float32 for bool and for every integer dtype of at most 32 bits, float64
\* for int64 and uint64, and the dtype itself when it is already inexact.
C19_AsStated ==
  (MadeInexact /\ call.args[1] \in Concrete) =>
    LET d == call.args[1]
    IN  /\ result.kind = "ok"
        /\ result.dtype \in InexactTags
        /\ (d = "bool" \/ (Category(d) \in {"i", "u"} /\ d \notin {"int64", "uint64"}))
              => result.dtype = "float32"
        /\ d \in {"int64", "uint64"} => result.dtype = "float64"
        /\ d \in InexactTags => result.dtype = d

\* C13: canonicalize_dtype of an extended dtype raises ValueError when
\* allow_extended_dtype is false and returns the dtype unchanged when it is
\* true, for either x64 setting and whatever calls were made before; a
\* call that raised leaves no entry in the cache, and the only entries for
\* an extended dtype are those of calls that allowed it.
C13_Extended ==
  /\ (Canonicalized /\ call.args[1] \in ExtendedDTypes) =>
       result = IF call.flag THEN Ok(call.args[1], FALSE)
                ELSE Raise("ValueError", "extended dtype not allowed")
  /\ \A e \in canonicalize_cache :
       /\ e.value.kind = "ok"
       /\ e.key.dtype \in ExtendedDTypes =>
            e.key.allow_extended_dtype /\ e.value = Ok(e.key.dtype, FALSE)

C13_Witness ==
  /\ Canonicalized
  /\ calls = 3
  /\ call.args = <<"key<fry>">>
  /\ ~call.flag
  /\ result.kind = "ValueError"
  /\ canonicalize_cache =
       {[key |-> CacheKey(enable_x64, TRUE, "key<fry>"), value |-> Ok("key<fry>", FALSE)]}

Subtyped == pc = "done" /\ call.op = "issubdtype"

\* x is the dtype object or the scalar type of one of the names S.
NamedIn(x, S) == x.kind \in {"dtype", "sctype"} /\ x.name \in S

\* C15: issubdtype(a, a) is True for every a: a concrete dtype or scalar
\* type (the float8 and 4-bit integer ones included), a Python scalar type,
\* an extended dtype, an abstract scalar type; and a dtype is a subtype of
\* its own scalar type and conversely.
C15_Reflexive ==
  Subtyped =>
    LET a == call.args[1]  b == call.args[2]
    IN  /\ a = b => result = OkBool(TRUE)
        /\ (NamedIn(a, Concrete) /\ NamedIn(b, {a.name})) => result = OkBool(TRUE)

C15_Witness ==
  /\ Subtyped
  /\ call.args = <<DTypeObject("float8_e4m3fn"), DTypeObject("float8_e4m3fn")>>
  /\ result = OkBool(TRUE)

\* C16: for a float8 dtype t, issubdtype(t, b) is True exactly when b is t,
\* floating, inexact, number or generic; for int4 exactly when b is int4,
\* signedinteger, integer, number or generic; for uint4 exactly when b is
\* uint4, unsignedinteger, integer, number or generic.
C16_Narrow ==
  (Subtyped /\ NamedIn(call.args[1], NarrowTags)) =>
    LET t == call.args[1].name
        b == call.args[2]
        above == IF t = "int4" THEN {t, "signedinteger", "integer", "number", "generic"}
                 ELSE IF t = "uint4" THEN {t, "unsignedinteger", "integer", "number", "generic"}
                 ELSE {t, "floating", "inexact", "number", "generic"}
    IN  /\ result = OkBool(NamedIn(b, above))
        /\ (NamedIn(b, Concrete \ {t}) \/ b.kind = "pytype") => result = OkBool(FALSE)

C16_Witness ==
  /\ Subtyped
  /\ call.args = <<DTypeObject("float8_e5m2"), ScalarType("floating")>>
  /\ result = OkBool(TRUE)

\* C17: issubdtype(a, b) for an extended dtype b is True exactly when a is
\* that extended dtype; for b the scalar type extended or prng_key it is
\* True exactly when a is an extended dtype whose type is b or a subclass of
\* b, or a is itself b or a subclass of b, hence never for a dtype, a numeric
\* scalar type or a Python scalar type; and for an extended dtype a it is
\* False for every dtype, Python scalar type and scalar type b other than
\* generic, extended and prng_key.
C17_Extended ==
  Subtyped =>
    LET a == call.args[1]  b == call.args[2]
        markers == {ScalarType("extended"), ScalarType("prng_key")}
        below(m) == m = b.name \/ (m = "prng_key" /\ b.name = "extended")
    IN  /\ b.kind = "extended_dtype" =>
              result = OkBool(a.kind = "extended_dtype" /\ a = b)
        /\ b \in markers =>
              /\ result = OkBool(\/ a.kind = "extended_dtype" /\ below(a.type)
                                 \/ a \in markers /\ below(a.name))
              /\ (a.kind \in {"dtype", "pytype"} \/ (a.kind = "sctype" /\ a \notin markers))
                    => result = OkBool(FALSE)
        /\ (a.kind = "extended_dtype" /\ b.kind # "extended_dtype"
               /\ b \notin markers \cup {ScalarType("generic")})
              => result = OkBool(FALSE)

C17_Witness ==
  /\ Subtyped
  /\ call.args = <<ExtendedDTypeObject("key<fry>", "prng_key"),
                   ExtendedDTypeObject("key<rbg>", "prng_key")>>
  /\ result = OkBool(FALSE)

\* The nodes reachable from the nodes of `frontier` by zero or more edges.
RECURSIVE ReachableFrom(_, _, _)
ReachableFrom(lattice, frontier, seen) ==
  IF frontier \subseteq seen THEN seen
  ELSE LET n == CHOOSE m \in frontier \ seen : TRUE
       IN  ReachableFrom(lattice, (frontier \ {n}) \cup Range(lattice[n]), seen \cup {n})

\* The reachability order of each shipped lattice: Reach[p][a] holds the b
\* with a path from a to b.
Reach ==
  [p \in Policies |->
     [a \in LatticeNodes |-> ReachableFrom(_type_promotion_lattice(p), {a}, {})]]

\* r is the join of the set N on the reachability order of policy p.
IsJoin(p, r, N) ==
  /\ \A n \in N : r \in Reach[p][n]
  /\ \A c \in LatticeNodes : (\A n \in N : c \in Reach[p][n]) => c \in Reach[p][r]

\* A call of _least_upper_bound with one or more nodes, all of the lattice.
LubOfNodes ==
  /\ LubCalled
  /\ Len(call.args) > 0
  /\ \A n \in Range(call.args) : n \in LatticeNodes

\* C21: under both policies _least_upper_bound of a non-empty set N of
\* lattice nodes returns r exactly when r is the join of N on the
\* reachability order (a common upper bound from which every common upper
\* bound is reachable), and raises TypePromotionError exactly when N has no
\* join.
C21_Join ==
  LubOfNodes =>
    LET N == Range(call.args)
        p == numpy_dtype_promotion
    IN  /\ \A r \in LatticeNodes : (result = Ok(r, FALSE)) <=> IsJoin(p, r, N)
        /\ (result.kind = "TypePromotionError") <=> ~(\E r \in LatticeNodes : IsJoin(p, r, N))
        /\ result.kind \in {"ok", "TypePromotionError"}

C21_Witness ==
  /\ LubOfNodes
  /\ numpy_dtype_promotion = "standard"
  /\ call.args = <<"int8", "uint8", "float16">>
  /\ result = Ok("float16", FALSE)
  /\ IsJoin("standard", "float16", {"int8", "uint8", "float16"})

\* C22: for both shipped lattices the candidate set of _least_upper_bound
\* for a non-empty set of lattice nodes has at most one member, and the
\* internal error for several candidates is never raised.
C22_AtMostOne ==
  LubOfNodes =>
    /\ Cardinality(LubCandidates(_lattice_upper_bounds[numpy_dtype_promotion], call.args)) <= 1
    /\ result.msg # "internal"

C22_Witness ==
  /\ LubOfNodes
  /\ numpy_dtype_promotion = "standard"
  /\ call.args = <<"int8", "uint8">>
  /\ LubCandidates(_lattice_upper_bounds["standard"], call.args) = {"int16"}
  /\ result = Ok("int16", FALSE)

\* The 8-bit float and 4-bit integer nodes.
NarrowNodes == Range(_float8_dtypes) \cup Range(_int4_dtypes)

\* C28: under the standard policy every non-empty set of lattice nodes with
\* no 8-bit float and no 4-bit integer has a least upper bound, so a
\* TypePromotionError under the standard policy has an 8-bit float or a 4-bit
\* integer among its inputs and never carries the generic diagnostic.
C28_StandardTotal ==
  (LubOfNodes /\ numpy_dtype_promotion = "standard") =>
    /\ (Range(call.args) \cap NarrowNodes = {}) => result.kind = "ok"
    /\ (result.kind = "TypePromotionError") =>
         /\ Range(call.args) \cap NarrowNodes # {}
         /\ result.msg \in {"float8", "int4"}
    /\ result.msg # "generic"

C28_Witness ==
  /\ LubOfNodes
  /\ numpy_dtype_promotion = "standard"
  /\ call.args = <<"uint64", "int4", "complex">>
  /\ result = Raise("TypePromotionError", "int4")

\* C29: for both policies and lattice nodes a, b, c whose pair (a, b) has a
\* least upper bound, _least_upper_bound of that bound and c, and
\* _least_upper_bound of a, b and c, return the same node or both raise
\* TypePromotionError.
C29_Fold ==
  (LubOfNodes /\ Len(call.args) = 3) =>
    LET p == numpy_dtype_promotion
        ab == _least_upper_bound(p, p, <<call.args[1], call.args[2]>>)
    IN  (ab.kind = "ok") =>
          LET folded == _least_upper_bound(p, p, <<ab.dtype, call.args[3]>>)
          IN  \/ folded.kind = "ok" /\ result.kind = "ok" /\ folded.dtype = result.dtype
              \/ folded.kind = "TypePromotionError" /\ result.kind = "TypePromotionError"

C29_Witness ==
  /\ LubOfNodes
  /\ numpy_dtype_promotion = "standard"
  /\ call.args = <<"int8", "uint8", "bfloat16">>
  /\ _least_upper_bound("standard", "standard", <<"int8", "uint8">>) = Ok("int16", FALSE)
  /\ _least_upper_bound("standard", "standard", <<"int16", "bfloat16">>) = Ok("bfloat16", FALSE)
  /\ result = Ok("bfloat16", FALSE)

\* result_type returned for two or more operands, none of them weak, under
\* the standard policy.
StrongOperandsResolved ==
  /\ Resolved
  /\ call.flag
  /\ numpy_dtype_promotion = "standard"
  /\ Len(call.args) >= 2
  /\ \A i \in DOMAIN call.args : ~OperandWeak(call.args[i])
  /\ result.kind = "ok"

\* bool and the 8-to-64-bit integer tags; the signed ones among them.
BoolOrInt8To64 ==
  {"bool", "int8", "int16", "int32", "int64", "uint8", "uint16", "uint32", "uint64"}

SignedInt8To64 == {"int8", "int16", "int32", "int64"}

\* C30: under the standard policy result_type of two or more operands, none
\* weak, returns weak type True exactly when every operand's tag is bool or
\* an 8-to-64-bit integer and the tags include uint64 and a signed integer;
\* the dtype is then the default float; in every other non-failing case the
\* weak type is False.
C30_StrongWeak ==
  StrongOperandsResolved =>
    LET tags == {OperandDtype(call.args[i]) : i \in DOMAIN call.args}
    IN  /\ result.weak <=>
             /\ tags \subseteq BoolOrInt8To64
             /\ "uint64" \in tags
             /\ tags \cap SignedInt8To64 # {}
        /\ result.weak => result.dtype = DefaultWidth("f")

C30_Witness ==
  /\ StrongOperandsResolved
  /\ call.args = <<DtypeOperand("uint64"), PyTypeOperand("bool"), DtypeOperand("int8")>>
  /\ result = Ok(DefaultWidth("f"), TRUE)

\* The table has a directed cycle: some node is reachable from one of its
\* successors.
HasCycle(lattice) ==
  \E n \in DOMAIN lattice : n \in ReachableFrom(lattice, Range(lattice[n]), {})

\* C23: the construction of the upper-bound sets raises the cycle error if
\* and only if the successor table has a directed cycle (a self-loop
\* included), in whatever order the nodes are visited, and never raises
\* for the standard and strict tables.
C23_CycleIff ==
  /\ [](pc = "raised" =>
         HasCycle(build_lattice) /\ result = Raise("ValueError", "cycle detected"))
  /\ [](pc = "returned" => ~HasCycle(build_lattice))
  /\ (HasCycle(build_lattice) ~> pc = "raised")
  /\ [](build_lattice \in ShippedLattices => pc # "raised")

\* The cycle is found at the last node visited; a node visited before it
\* reaches the cycle and was finished without raising.
C23_Witness ==
  /\ pc = "raised"
  /\ Cardinality(DOMAIN build_lattice) = 3
  /\ Len(build_todo) = 1
  /\ \E m \in DOMAIN build_lattice \ {Head(build_todo)} : Head(build_todo) \in upper_bounds[m]

\* C24: for every acyclic successor table the construction terminates,
\* each node's set only grows while it runs, and on completion UB(n) is the
\* set of nodes reachable from n by zero or more edges, so that n is in
\* UB(n) and UB(m) is a subset of UB(n) for every m in UB(n).
C24_Reachability ==
  /\ (~HasCycle(build_lattice)) ~> (pc = "returned")
  /\ [][\A n \in DOMAIN upper_bounds : upper_bounds[n] \subseteq upper_bounds'[n]]_vars
  /\ [](pc = "returned" =>
         \A n \in DOMAIN build_lattice :
           /\ upper_bounds[n] = ReachableFrom(build_lattice, {n}, {})
           /\ n \in upper_bounds[n]
           /\ \A m \in upper_bounds[n] : upper_bounds[m] \subseteq upper_bounds[n])

\* A chain of three nodes has been completed.
C24_Witness ==
  /\ pc = "returned"
  /\ Cardinality(DOMAIN build_lattice) = 3
  /\ \E n \in DOMAIN build_lattice : upper_bounds[n] = DOMAIN build_lattice
  /\ \E n \in DOMAIN build_lattice : upper_bounds[n] = {n}
  /\ \A n \in DOMAIN build_lattice : Len(build_lattice[n]) <= 1

\* Every entry of both caches is what the function computes for its key.
CachesCoherent ==
  /\ \A e \in lub_cache :
       e.value = _least_upper_bound(e.key.jax_numpy_dtype_promotion,
                                    e.key.jax_numpy_dtype_promotion, e.key.nodes)
  /\ \A e \in canonicalize_cache :
       e.value = _canonicalize_dtype(e.key.x64_enabled, e.key.allow_extended_dtype, e.key.dtype)

\* C25: after any sequence of promote_types, result_type and
\* canonicalize_dtype calls interleaved with changes of enable_x64 and of
\* the promotion policy, every call returns what the computation without
\* caches returns under the flags current at the call: no entry of either
\* cache computed under one flag setting is returned under another.
C25_FlagsCurrent ==
  /\ CachesCoherent
  /\ (pc = "done" /\ call.op = "promote_types") =>
       result = promote_types(numpy_dtype_promotion, call.args[1], call.args[2])
  /\ (pc = "done" /\ call.op = "result_type") =>
       \A int4_kind \in Int4Kinds :
         result = result_type(enable_x64, numpy_dtype_promotion, default_dtype_bits,
                              int4_kind, call.args, call.flag)
  /\ (pc = "done" /\ call.op = "canonicalize_dtype") =>
       result = canonicalize_dtype(enable_x64, call.args[1], call.flag)
  /\ (pc = "done" /\ call.op = "_least_upper_bound") =>
       result = _least_upper_bound(numpy_dtype_promotion, numpy_dtype_promotion, call.args)

\* result_type fails under the strict policy and returns the narrow default
\* float although both caches hold the entries of the same call made under
\* the standard policy with enable_x64 set.
C25_Witness ==
  /\ pc = "done"
  /\ call.op = "result_type"
  /\ call.args = <<DtypeOperand("int64"), PyTypeOperand("float")>>
  /\ numpy_dtype_promotion = "strict"
  /\ result.kind = "TypePromotionError"
  /\ \E e \in lub_cache :
       e.key.jax_numpy_dtype_promotion = "standard" /\ Range(e.key.nodes) = {"int64", "float"}
  /\ \E e \in canonicalize_cache : e.key.x64_enabled /\ ~enable_x64

\* C27: after any sequence of _least_upper_bound, promote_types and
\* result_type calls, returning or raising, both tables of upper-bound
\* sets are as they were built: nothing is removed from a stored set, also
\* by a single-node call.
C27_TablesUnchanged ==
  /\ popped_upper_bounds = {}
  /\ StoredUpperBounds(popped_upper_bounds) = _lattice_upper_bounds

\* A single-node call has returned after other calls.
C27_Witness ==
  /\ pc = "done"
  /\ call.op = "_least_upper_bound"
  /\ call.args = <<"int64">>
  /\ result = Ok("int64", FALSE)
  /\ calls = MaxCachedCalls
  /\ StoredUpperBounds(popped_upper_bounds) = _lattice_upper_bounds

\* The function of a key of either cache.
ValueOfKey(op, key) ==
  IF op = "_least_upper_bound"
  THEN _least_upper_bound(key.jax_numpy_dtype_promotion, key.jax_numpy_dtype_promotion,
                          key.nodes)
  ELSE _canonicalize_dtype(key.x64_enabled, key.allow_extended_dtype, key.dtype)

\* C26: when threads call _least_upper_bound or _canonicalize_dtype
\* concurrently, on one key or on several, every call returns the value or
\* the error of the function for its key, and every entry of a cache is the
\* function of its key, one entry to a key, also when two threads miss on
\* the same key and both run the function.
C26_Concurrent ==
  /\ \A t \in Threads :
       threads[t].pc = "done" => threads[t].result = ValueOfKey(threads[t].op, threads[t].key)
  /\ CachesCoherent
  /\ \A e1, e2 \in lub_cache : e1.key = e2.key => e1 = e2
  /\ \A e1, e2 \in canonicalize_cache : e1.key = e2.key => e1 = e2

\* Both threads missed on the same key, both ran the function, and a third
\* call was made.
C26_Witness ==
  /\ threads[1].pc = "done" /\ threads[2].pc = "done"
  /\ ~threads[1].hit /\ ~threads[2].hit
  /\ threads[1].op = threads[2].op
  /\ threads[1].key = threads[2].key
  /\ threads[1].result.kind = "ok"
  /\ threads[1].result = threads[2].result
  /\ \E e \in lub_cache \cup canonicalize_cache : e.key = threads[1].key
====
